---------------------------- MODULE Spec2Model ----------------------------
(***************************************************************************)
(* A state-machine model of aws-sso-profile-sync (src/main.go).            *)
(*                                                                         *)
(* Strings are sequences of atoms.  An atom is a TLA+ string standing for  *)
(* a piece of text the program never looks inside (one character where     *)
(* the program inspects characters: "/", "_", " ", ...).  Concatenation    *)
(* is \o, so fmt.Sprintf("profile %s", n) is <<"profile ">> \o n.          *)
(*                                                                         *)
(* The config file is text: a sequence of lines and a flag saying whether  *)
(* the last byte is a newline.  Blank lines are not represented (the INI   *)
(* reader skips them).  gopkg.in/ini.v1 is an external library; Load and   *)
(* SaveTo are modelled by what main.go relies on: section headers, keys,   *)
(* comments, a load error on a line that is none of these, and the key     *)
(* lookup of a child section ("a.b") in its parent section ("a").          *)
(***************************************************************************)
EXTENDS Naturals, Integers, Sequences, FiniteSets, TLC

VARIABLES
    \* ---- configuration variables populated by flags (main.go 32-43)
    ssoRoleNames,          \* requested role names
    profilePrefix,
    useAutoPrefix,
    ssoStartURL,
    ssoSessionConfigName,
    ssoRegion,
    dryRun,
    profileOutput,
    \* ---- the file system
    configFile,            \* the file at ssoConfigFile
    cacheDir,              \* ~/.aws/sso/cache
    \* ---- the environment: wall clock and the remote collaborators
    now,                   \* wall clock, in ticks of half a second
    directory,             \* what the listing capability returns
    \* ---- control state
    mode,                  \* which entry point this behaviour exercises
    pc,                    \* position in login()
    df,                    \* the device flow (runAwsSsoLogin) activation
    lg,                    \* locals of login()
    ret,                   \* the last completed call and its result
    hist                   \* observations kept for the properties

vars == << ssoRoleNames, profilePrefix, useAutoPrefix, ssoStartURL,
           ssoSessionConfigName, ssoRegion, dryRun, profileOutput,
           configFile, cacheDir, now, directory, mode, pc, df, lg, ret, hist >>

flagVars == << ssoRoleNames, profilePrefix, useAutoPrefix, ssoStartURL,
               ssoRegion, dryRun, profileOutput >>

-----------------------------------------------------------------------------
(* Strings                                                                 *)

Slash == "/"

RECURSIVE TrimRight(_, _)
TrimRight(s, c) ==
    IF s = << >> THEN s
    ELSE IF s[Len(s)] = c THEN TrimRight(SubSeq(s, 1, Len(s) - 1), c)
    ELSE s

HasPrefix(s, p) == Len(s) >= Len(p) /\ SubSeq(s, 1, Len(p)) = p

HasSuffix(s, p) == Len(s) >= Len(p) /\ SubSeq(s, Len(s) - Len(p) + 1, Len(s)) = p

TrimPrefix(s, p) == IF HasPrefix(s, p) THEN SubSeq(s, Len(p) + 1, Len(s)) ELSE s

TrimSuffix(s, p) == IF HasSuffix(s, p) THEN SubSeq(s, 1, Len(s) - Len(p)) ELSE s

Range(s) == { s[i] : i \in DOMAIN s }

-----------------------------------------------------------------------------
(* Program constants                                                       *)

defaultSSOSessionConfigName == << "default" >>
defaultSSORegion == << "us-east-1" >>
EmptyString == << >>

SsoSessionPrefix == << "sso-session " >>
ProfilePrefixWord == << "profile " >>
KeyStartUrl == << "sso_start_url" >>
KeyRegion == << "sso_region" >>
KeyScopes == << "sso_registration_scopes" >>
ScopeValue == << "sso:account:access" >>
KeySession == << "sso_session" >>
KeyAccountId == << "sso_account_id" >>
KeyRoleName == << "sso_role_name" >>
KeyProfileRegion == << "region" >>
KeyOutput == << "output" >>

\* Error values are strings too.  Nil is "no error".
Nil == << "<nil>" >>
ErrAmbiguous == << "multiple matching sso-session blocks found" >>
ErrIO == << "io error" >>

\* fmt.Errorf("multiple matching sso-session blocks found for startUrl %s and
\* region %s", ssoStartURL, ssoRegion) (main.go 489, 809, 886).
AmbiguityError(startURL, region) ==
    ErrAmbiguous \o << " for startUrl " >> \o startURL
                 \o << " and region " >> \o region

\* strings.Contains(s, sub) for a sub that is one atom.
Contains(s, sub) == \E i \in DOMAIN s : s[i] = sub

-----------------------------------------------------------------------------
(* The config file as text, and the INI reader                             *)

HdrLine(name) == [k |-> "hdr", a |-> name, b |-> << >>]
KvLine(key, val) == [k |-> "kv", a |-> key, b |-> val]
\* A comment line whose text quotes a section header, "# [name]".
CmtLine(name) == [k |-> "cmt", a |-> name, b |-> << >>]
\* A line that is neither a header, a key-value pair nor a comment.
BadLine == [k |-> "bad", a |-> << >>, b |-> << >>]

NoFile == [exists |-> FALSE, lines |-> << >>, nl |-> TRUE]
FileOf(lines, nl) ==
    [exists |-> TRUE, lines |-> lines, nl |-> (nl \/ lines = << >>)]

\* A parsed document: sections in order, each with its keys in order.
DefaultSection == << "DEFAULT" >>
EmptyDoc == << [name |-> DefaultSection, keys |-> << >>] >>

SectionIndex(doc, name) ==
    IF \E i \in DOMAIN doc : doc[i].name = name
    THEN CHOOSE i \in DOMAIN doc : doc[i].name = name
    ELSE 0

KeyIndex(keys, key) ==
    IF \E i \in DOMAIN keys : keys[i][1] = key
    THEN CHOOSE i \in DOMAIN keys : keys[i][1] = key
    ELSE 0

\* section.Key(k).SetValue(v): update in place, or append a new key.
SetKey(keys, key, val) ==
    LET i == KeyIndex(keys, key) IN
    IF i = 0 THEN Append(keys, << key, val >>)
    ELSE [keys EXCEPT ![i] = << key, val >>]

\* cfg.NewSection(name): the existing section of that name, or a new one.
NewSection(doc, name) ==
    IF SectionIndex(doc, name) = 0
    THEN Append(doc, [name |-> name, keys |-> << >>])
    ELSE doc

HasSection(doc, name) == SectionIndex(doc, name) # 0

\* The library's child sections: a section named "a.b" is a child of the
\* section "a", the name up to the last delimiter.
Dot == "."
HasParent(name) == \E i \in DOMAIN name : name[i] = Dot
ParentName(name) ==
    LET i == CHOOSE i \in DOMAIN name :
                 name[i] = Dot /\ \A j \in DOMAIN name : name[j] = Dot => j <= i
    IN SubSeq(name, 1, i - 1)

NoKey == << 0, 0 >>

RECURSIVE GetKey(_, _, _)
RECURSIVE ParentKey(_, _, _)
\* section.GetKey(key) on cfg.Section(name): << section index, key index >>.
\* A key the section does not have is looked up in its nearest existing
\* ancestor section, and so on from there.
GetKey(doc, name, key) ==
    LET i == SectionIndex(doc, name)
        j == IF i = 0 THEN 0 ELSE KeyIndex(doc[i].keys, key)
    IN IF j # 0 THEN << i, j >> ELSE ParentKey(doc, name, key)

ParentKey(doc, sname, key) ==
    IF ~HasParent(sname) THEN NoKey
    ELSE LET p == ParentName(sname)
         IN IF HasSection(doc, p) THEN GetKey(doc, p, key)
            ELSE ParentKey(doc, p, key)

\* section.HasKey(key) on cfg.Section(name): GetKey finds a key.
HasKey(doc, name, key) == GetKey(doc, name, key) # NoKey

\* cfg.Section(name).Key(key).String(): "" when no key is found.
KeyString(doc, name, key) ==
    LET k == GetKey(doc, name, key) IN
    IF k = NoKey THEN EmptyString ELSE doc[k[1]].keys[k[2]][2]

\* cfg.Section(name).Key(key).SetValue(val): sets the key GetKey finds, the
\* section's own or an ancestor's; a key not found is added to the section.
SetValue(doc, name, key, val) ==
    LET k == GetKey(doc, name, key) IN
    IF k = NoKey
    THEN [doc EXCEPT ![SectionIndex(doc, name)].keys = Append(@, << key, val >>)]
    ELSE [doc EXCEPT ![k[1]].keys[k[2]] = << key, val >>]

\* The pseudo-key under which a parsed section keeps a comment line.
CommentKey == << "#" >>

RECURSIVE ParseFrom(_, _, _, _)
\* Feed lines[i..] into doc; cur is the index of the current section.
ParseFrom(lines, i, doc, cur) ==
    IF i > Len(lines) THEN doc
    ELSE LET l == lines[i] IN
         IF l.k = "hdr"
         THEN LET d2 == NewSection(doc, l.a) IN
              ParseFrom(lines, i + 1, d2, SectionIndex(d2, l.a))
         ELSE IF l.k = "kv"
         THEN ParseFrom(lines, i + 1,
                        [doc EXCEPT ![cur].keys = SetKey(@, l.a, l.b)], cur)
         ELSE \* a comment stays with the section it was read in
              ParseFrom(lines, i + 1,
                        [doc EXCEPT ![cur].keys = Append(@, << CommentKey, l.a >>)],
                        cur)

\* ini.Load(path): an error when the file is missing or a line is malformed.
LoadErr(file) ==
    \/ ~file.exists
    \/ \E i \in DOMAIN file.lines : file.lines[i].k = "bad"

Load(file) == ParseFrom(file.lines, 1, EmptyDoc, 1)

RECURSIVE SectionLines(_, _)
SectionLines(name, keys) ==
    IF keys = << >> THEN << >>
    ELSE << IF keys[1][1] = CommentKey THEN CmtLine(keys[1][2])
            ELSE KvLine(keys[1][1], keys[1][2]) >>
         \o SectionLines(name, Tail(keys))

RECURSIVE DocLines(_)
\* cfg.SaveTo: every section as a header followed by its keys.  The DEFAULT
\* section has no header and is written only when it has keys.
DocLines(doc) ==
    IF doc = << >> THEN << >>
    ELSE LET s == doc[1] IN
         (IF s.name = DefaultSection
          THEN SectionLines(s.name, s.keys)
          ELSE << HdrLine(s.name) >> \o SectionLines(s.name, s.keys))
         \o DocLines(Tail(doc))

SaveTo(doc) == FileOf(DocLines(doc), TRUE)

-----------------------------------------------------------------------------
(* SessionReconciler: ensureSsoSessionConfigPresent and its helpers        *)

IsDefaultName(name) == name = defaultSSOSessionConfigName \/ name = EmptyString

\* fmt.Sprintf("[sso-session %s]", name), as the section name inside the
\* brackets.
SessionSectionName(name) == SsoSessionPrefix \o name

\* The block ensureSsoSessionConfigPresent renders (main.go 450-455).
SessionBlock(name, startURL, region) ==
    << HdrLine(SessionSectionName(name)),
       KvLine(KeyStartUrl, TrimRight(startURL, Slash)),
       KvLine(KeyRegion, region),
       KvLine(KeyScopes, ScopeValue) >>

\* Variant: looks for the header text on the first line only.
ContainsHeaderAtStart(file, name) ==
    /\ file.lines # << >>
    /\ file.lines[1].k \in {"hdr", "cmt"}
    /\ file.lines[1].a = SessionSectionName(name)

\* strings.Contains(string(data), sessionHeader): the bracketed header text
\* occurs in a header line or quoted in a comment.  A missing file reads as
\* empty data.
ContainsHeader(file, name) ==
    \E i \in DOMAIN file.lines :
        /\ file.lines[i].k \in {"hdr", "cmt"}
        /\ file.lines[i].a = SessionSectionName(name)

SectionMatches(sec, normStart, region) ==
    /\ HasPrefix(sec.name, SsoSessionPrefix)
    /\ LET j == KeyIndex(sec.keys, KeyStartUrl)
           r == KeyIndex(sec.keys, KeyRegion)
           ssoStart == TrimRight(IF j = 0 THEN EmptyString ELSE sec.keys[j][2], Slash)
           secRegion == IF r = 0 THEN EmptyString ELSE sec.keys[r][2]
       IN ssoStart = normStart /\ secRegion = region

RECURSIVE MatchesFrom(_, _, _, _)
MatchesFrom(doc, i, normStart, region) ==
    IF i > Len(doc) THEN << >>
    ELSE (IF SectionMatches(doc[i], normStart, region)
          THEN << SubSeq(doc[i].name, Len(SsoSessionPrefix) + 1, Len(doc[i].name)) >>
          ELSE << >>)
         \o MatchesFrom(doc, i + 1, normStart, region)

\* Variant: stops at the first match, as findMatchingSsoSessionName does.
findFirstMatchingOnly(startURL, region, file) ==
    IF LoadErr(file) THEN [err |-> ErrIO, matches |-> << >>]
    ELSE LET all == MatchesFrom(Load(file), 1, TrimRight(startURL, Slash), region)
         IN [err |-> Nil,
             matches |-> IF all = << >> THEN << >> ELSE << all[1] >>]

\* Variant: compares against the start URL as given, without stripping its
\* trailing slashes.
findAllMatchingNoTrim(startURL, region, file) ==
    IF LoadErr(file) THEN [err |-> ErrIO, matches |-> << >>]
    ELSE [err |-> Nil, matches |-> MatchesFrom(Load(file), 1, startURL, region)]

\* findAllMatchingSsoSessionNames: [err, matches].
findAllMatchingSsoSessionNames(startURL, region, file) ==
    IF LoadErr(file) THEN [err |-> ErrIO, matches |-> << >>]
    ELSE [err |-> Nil,
          matches |-> MatchesFrom(Load(file), 1, TrimRight(startURL, Slash), region)]

\* Variant: no newline is ever written before the block.
NeedsNewlineNever(file) == FALSE

\* needsNewline := len(data) > 0 && data[len(data)-1] != '\n'
NeedsNewline(file) == file.lines # << >> /\ ~file.nl

\* f.WriteString(toWrite) in append mode.  When the old text does not end in
\* a newline and none is written first, the header lands on the old last
\* line, which no longer parses.
WriteAppended(file, block, withNewline) ==
    IF file.lines # << >> /\ ~file.nl /\ ~withNewline
    THEN FileOf(SubSeq(file.lines, 1, Len(file.lines) - 1)
                \o << BadLine >> \o Tail(block), TRUE)
    ELSE FileOf(file.lines \o block, TRUE)

\* ensureSsoSessionConfigPresent (main.go 447-515).  fail names the file
\* operation the environment lets fail: "none", "read" or "write".
\* Result: created, err, the (possibly rebound) session name, the file, and
\* the lines printed.
ensureSsoSessionConfigPresent(file, name, startURL, region, dry, fail) ==
    LET same(created, err, out) ==
            [created |-> created, err |-> err, name |-> name,
             file |-> file, out |-> out]
        found == findAllMatchingSsoSessionNames(startURL, region, file)
        create ==
            IF dry THEN same(TRUE, Nil, << "WouldAddSession" >>)
            ELSE IF fail = "write" THEN same(FALSE, ErrIO, << >>)
            ELSE [created |-> TRUE, err |-> Nil, name |-> name,
                  file |-> WriteAppended(file,
                                         SessionBlock(name, startURL, region),
                                         NeedsNewline(file)),
                  out |-> << >>]
    IN
    IF fail = "read" /\ file.exists THEN same(FALSE, ErrIO, << >>)
    ELSE IF ContainsHeader(file, name) THEN same(FALSE, Nil, << >>)
    ELSE IF IsDefaultName(name) /\ file.exists /\ found.err = Nil
            /\ Len(found.matches) = 1
    THEN [created |-> FALSE, err |-> Nil, name |-> found.matches[1],
          file |-> file,
          out |-> IF dry THEN << "WouldReuseSession" >> ELSE << >>]
    ELSE IF IsDefaultName(name) /\ file.exists /\ found.err = Nil
            /\ Len(found.matches) > 1
    THEN same(FALSE, AmbiguityError(startURL, region), << >>)
    ELSE create

-----------------------------------------------------------------------------
(* TokenCacheStore: getAccessTokenFromSsoSessionWithPath                   *)

\* The model clock ticks this many times a second; file modification times
\* are kept in ticks, and ModTime().Unix() sees whole seconds only.
TicksPerSecond == 2

Unix(t) == t \div TicksPerSecond

\* A cache directory entry.  name is the file name (its numeric part, the
\* order os.ReadDir lists entries in); ext is "json" for "<name>.json" and
\* "tmp" for "<name>.json.tmp"; body is what the file holds:
\*   "record"   a JSON object; startUrl and accessToken are its fields,
\*              NotAString when missing or not of string type
\*   "garbage"  bytes json.Unmarshal rejects
\*   "partial"  the beginning of a record still being written, which
\*              json.Unmarshal rejects too
\*   "locked"   a file os.ReadFile cannot read
NotAString == << "<not a string>" >>

CacheFile(name, ext, body, startUrl, accessToken, mtime) ==
    [name |-> name, ext |-> ext, body |-> body, startUrl |-> startUrl,
     accessToken |-> accessToken, mtime |-> mtime]

NoCacheDir == [exists |-> FALSE, files |-> << >>]

\* Variant: compares the stored start URL with the target as given only.
IssuerMatchesExact(startUrl, target) == startUrl = target

\* Variant: strips trailing slashes from both sides.
IssuerMatchesBothTrimmed(startUrl, target) ==
    TrimRight(startUrl, Slash) = TrimRight(target, Slash)

\* main.go 241: startUrl == ssoStartURL || startUrl == TrimRight(ssoStartURL, "/")
IssuerMatches(startUrl, target) ==
    startUrl = target \/ startUrl = TrimRight(target, Slash)

\* The test of main.go 229-241 that makes a directory entry a candidate.
IsCandidate(f, target) ==
    /\ f.ext = "json"
    /\ f.body = "record"
    /\ f.startUrl # NotAString
    /\ IssuerMatches(f.startUrl, target)
    /\ f.accessToken # NotAString

\* candidate{path, startUrl, token, modTime} of main.go 247-252.
Candidate(f) ==
    [path |-> f.name, startUrl |-> f.startUrl, token |-> f.accessToken,
     modTime |-> Unix(f.mtime)]

RECURSIVE Candidates(_, _)
Candidates(files, target) ==
    IF files = << >> THEN << >>
    ELSE (IF IsCandidate(files[1], target) THEN << Candidate(files[1]) >>
          ELSE << >>)
         \o Candidates(Tail(files), target)

\* Variant: keeps the later of two candidates of equal modTime.
NewerOrEqual(c, latest) == c.modTime >= latest.modTime

\* Variant: keeps the older candidate.
Older(c, latest) == c.modTime < latest.modTime

\* main.go 261: c.modTime > latest.modTime
Newer(c, latest) == c.modTime > latest.modTime

RECURSIVE Latest(_, _)
\* The loop of main.go 259-264.
Latest(cands, latest) ==
    IF cands = << >> THEN latest
    ELSE Latest(Tail(cands), IF Newer(cands[1], latest) THEN cands[1] ELSE latest)

ErrNoToken == << "no valid SSO accessToken found for startUrl" >>
ErrReadDir == << "cannot read the cache directory" >>

\* getAccessTokenFromSsoSessionWithPath (main.go 214-266): [err, token, path],
\* and the candidates it collected on the way.
getAccessTokenFromSsoSessionWithPath(dir, target) ==
    IF ~dir.exists
    THEN [err |-> ErrReadDir, token |-> EmptyString, path |-> 0,
          candidates |-> << >>]
    ELSE LET cands == Candidates(dir.files, target) IN
         IF Len(cands) = 0
         THEN [err |-> ErrNoToken, token |-> EmptyString, path |-> 0,
               candidates |-> cands]
         ELSE LET latest == Latest(cands, cands[1]) IN
              [err |-> Nil, token |-> latest.token, path |-> latest.path,
               candidates |-> cands]

-----------------------------------------------------------------------------
(* DeviceAuthClient: runAwsSsoLogin                                        *)

\* Errors of the identity provider, as err.Error() renders them.
SdkPrefix == "operation error SSO OIDC: "
ErrLoadConfig == << "failed to load SDK config" >>
ErrRegister == << SdkPrefix, "RegisterClient, ", "InvalidClientMetadataException" >>
ErrStartAuth == << SdkPrefix, "StartDeviceAuthorization, ", "InvalidRequestException" >>
ErrPendingSdk == << SdkPrefix, "CreateToken, ", "AuthorizationPending", "Exception" >>
ErrPendingOAuth == << "authorization_pending" >>
ErrSlowDownSdk == << SdkPrefix, "CreateToken, ", "SlowDown", "Exception" >>
ErrSlowDownOAuth == << "slow_down" >>
ErrExpiredToken == << SdkPrefix, "CreateToken, ", "ExpiredTokenException" >>
ErrAccessDenied == << SdkPrefix, "CreateToken, ", "AccessDeniedException" >>
ErrNoAccessToken == << "failed to obtain access token via device authorization" >>

\* Variant: only a pending signal is retried; slow-down is fatal.
IsRetryablePendingOnly(es) ==
    Contains(es, "authorization_pending") \/ Contains(es, "AuthorizationPending")

\* Variant: every exchange error is retried.
IsRetryableAlways(es) == TRUE

\* main.go 143: the errors the polling loop sleeps on and retries.
IsRetryable(es) ==
    \/ Contains(es, "authorization_pending")
    \/ Contains(es, "AuthorizationPending")
    \/ Contains(es, "slow_down")
    \/ Contains(es, "SlowDown")

DefaultInterval == 5

\* Variant: the interval of the device-code response is ignored.
PollIntervalAlwaysDefault(devInterval) == DefaultInterval

\* main.go 123-126: the polling interval, in seconds.
PollInterval(devInterval) ==
    IF devInterval > 0 THEN devInterval ELSE DefaultInterval

\* Variant: the validity window is taken in units sixty times too long.
DeadlineInMinutes(start, expiresIn) == start + expiresIn * 60 * TicksPerSecond

\* main.go 127: deadline := time.Now().Add(ExpiresIn seconds), in ticks.
Deadline(start, expiresIn) == start + expiresIn * TicksPerSecond

\* main.go 129: time.Now().Before(deadline)
BeforeDeadline(t, deadline) == t < deadline

\* time.Now().UnixNano() as a file name: later than the name of every file
\* written before.
RECURSIVE MaxName(_)
MaxName(files) ==
    IF files = << >> THEN 0
    ELSE LET r == MaxName(Tail(files)) IN
         IF files[1].name > r THEN files[1].name ELSE r

\* Variant: takes the name of the first file already there.
ReusedName(dir) == IF dir.files = << >> THEN 1 ELSE dir.files[1].name

FreshName(dir) == MaxName(dir.files) + 1

\* Variant: the record is written under its final name from the start.
FinalSuffix == "json"

\* main.go 181: tmpPath := outPath + ".tmp"
TmpSuffix == "tmp"

\* The record of main.go 169-174 on disk.  complete is FALSE while
\* os.WriteFile has not finished.
TokenFile(name, ext, complete, startURL, accessToken, mtime) ==
    CacheFile(name, ext, IF complete THEN "record" ELSE "partial",
              TrimRight(startURL, Slash), accessToken, mtime)

\* Directory entries stay in file-name order; "<n>.json" sorts before
\* "<n>.json.tmp".
PutFile(dir, f) ==
    [exists |-> TRUE,
     files |-> SelectSeq(dir.files, LAMBDA g : g.name # f.name \/ g.ext # f.ext)
               \o << f >>]

RemoveFile(dir, name, ext) ==
    [dir EXCEPT !.files = SelectSeq(@, LAMBDA g : g.name # name \/ g.ext # ext)]

\* Bounds of the provider's answers and of the clock.
MaxInterval == 2     \* devOut.Interval, seconds (0: none given)
MaxExpiresIn == 3    \* devOut.ExpiresIn, seconds
MaxLatency == 1      \* ticks one CreateToken call may take

NoTokenOut == [present |-> FALSE, accessToken |-> NotAString]

\* The activation record of runAwsSsoLogin.
NewDf ==
    [pc |-> "register", err |-> Nil, interval |-> 0, deadline |-> 0,
     tokenOut |-> NoTokenOut, name |-> 0]

IdleDf == [NewDf EXCEPT !.pc = "idle"]

\* Observations of one behaviour, for the properties.
Hist0(dir, file) ==
    [calls |-> 0,            \* entry-point calls made
     requests |-> 0,         \* protocol requests sent to the provider
     attempts |-> 0,         \* CreateToken attempts of the current flow
     retried |-> 0,          \* attempts answered pending or slow-down
     slowedDown |-> FALSE,   \* one of them was a slow-down
     granted |-> 0,          \* attempts answered with a token
     lateAttempts |-> 0,     \* attempts begun at or after start + expiresIn
     intervals |-> {},       \* lengths of the sleeps of the current flow
     fatal |-> Nil,          \* the provider error that ended the flow
     requestsAtFatal |-> 0,
     flowStart |-> 0,        \* when the device code was issued
     expiresIn |-> 0,
     devInterval |-> 0,
     cache0 |-> dir,         \* the cache directory when the call began
     config0 |-> file,       \* the config file when the call began
     runs |-> << >>,         \* results of the completed reconcile runs
     events |-> << >>,       \* the steps login() has taken, in order
     validated |-> FALSE,    \* a fetched credential passed validation
     failedWrites |-> 0,     \* profile writes that returned an error
     name0 |-> << >>]        \* the session name login() was called with

\* return err: the locals of the activation are gone.
DfReturned(err) == [NewDf EXCEPT !.pc = "returned", !.err = err]

\* main.go 72-86: load the SDK configuration and register a public client.
DfRegister ==
    /\ df.pc = "register"
    /\ \E outcome \in {"ok", "configError", "registerError"} :
         /\ df' = IF outcome = "ok" THEN [df EXCEPT !.pc = "start"]
                  ELSE IF outcome = "configError" THEN DfReturned(ErrLoadConfig)
                  ELSE DfReturned(ErrRegister)
         /\ hist' = [hist EXCEPT
                       !.requests = @ + (IF outcome = "configError" THEN 0 ELSE 1),
                       !.requestsAtFatal =
                           IF outcome = "registerError" THEN hist.requests + 1 ELSE @,
                       !.fatal = IF outcome = "registerError" THEN ErrRegister ELSE @]
    /\ UNCHANGED << flagVars, ssoSessionConfigName, configFile, cacheDir, now,
                    directory, mode, pc, lg, ret >>

\* main.go 88-127: request the device code, show it, fix interval and deadline.
DfStartAuthorization ==
    /\ df.pc = "start"
    /\ \/ /\ df' = DfReturned(ErrStartAuth)
          /\ hist' = [hist EXCEPT !.requests = @ + 1, !.fatal = ErrStartAuth,
                                  !.requestsAtFatal = hist.requests + 1]
       \/ \E devInterval \in 0..MaxInterval, expiresIn \in 0..MaxExpiresIn :
            /\ df' = [df EXCEPT !.pc = "poll",
                                !.interval = PollInterval(devInterval),
                                !.deadline = Deadline(now, expiresIn)]
            /\ hist' = [hist EXCEPT !.requests = @ + 1, !.flowStart = now,
                                    !.expiresIn = expiresIn,
                                    !.devInterval = devInterval]
    /\ UNCHANGED << flagVars, ssoSessionConfigName, configFile, cacheDir, now,
                    directory, mode, pc, lg, ret >>

\* What CreateToken may answer: a token, an output without AccessToken, or
\* an error.
\* kind is what the provider meant; err is the error value the code sees.
ExchangeAnswers ==
    { [kind |-> "token", err |-> Nil], [kind |-> "noAccessToken", err |-> Nil] }
    \cup { [kind |-> "pending", err |-> e] : e \in { ErrPendingSdk, ErrPendingOAuth } }
    \cup { [kind |-> "slowDown", err |-> e] : e \in { ErrSlowDownSdk, ErrSlowDownOAuth } }
    \cup { [kind |-> "fatal", err |-> e] : e \in { ErrExpiredToken, ErrAccessDenied } }

\* The observations of one CreateToken attempt begun at time t.
AttemptObserved(h, t, answer) ==
    [h EXCEPT
       !.requests = @ + 1,
       !.attempts = @ + 1,
       !.retried = @ + (IF answer.kind \in {"pending", "slowDown"} THEN 1 ELSE 0),
       !.slowedDown = @ \/ answer.kind = "slowDown",
       !.granted = @ + (IF answer.kind = "token" THEN 1 ELSE 0),
       !.lateAttempts = @ + (IF t >= h.flowStart + h.expiresIn * TicksPerSecond
                             THEN 1 ELSE 0),
       !.fatal = IF answer.kind = "fatal" /\ h.fatal = Nil THEN answer.err ELSE @,
       !.requestsAtFatal = IF answer.kind = "fatal" /\ h.fatal = Nil
                           THEN h.requests + 1 ELSE @]

\* main.go 129-151: one pass of the polling loop: the deadline test, and
\* when it passes one CreateToken attempt; on leaving the loop, the test of
\* tokenOut.
DfPoll ==
    /\ df.pc = "poll"
    /\ IF ~BeforeDeadline(now, df.deadline)
       THEN /\ df' = DfReturned(ErrNoAccessToken)
            /\ UNCHANGED << now, hist >>
       ELSE \E latency \in 0..MaxLatency, answer \in ExchangeAnswers :
            /\ now' = now + latency
            /\ hist' = AttemptObserved(hist, now, answer)
            /\ df' = IF answer.kind = "token"
                     THEN [df EXCEPT
                             !.pc = "persist",
                             !.tokenOut = [present |-> TRUE,
                                           accessToken |-> << "token", FreshName(cacheDir) >>]]
                     ELSE IF answer.kind = "noAccessToken"
                     THEN DfReturned(ErrNoAccessToken)
                     ELSE IF IsRetryable(answer.err)
                     THEN [df EXCEPT !.pc = "sleep"]
                     ELSE DfReturned(answer.err)
    /\ UNCHANGED << flagVars, ssoSessionConfigName, configFile, cacheDir,
                    directory, mode, pc, lg, ret >>

\* main.go 144-145: time.Sleep(interval), then the next pass.
DfSleep ==
    /\ df.pc = "sleep"
    /\ now' = now + df.interval * TicksPerSecond
    /\ df' = [df EXCEPT !.pc = "poll"]
    /\ hist' = [hist EXCEPT !.intervals = @ \cup { df.interval }]
    /\ UNCHANGED << flagVars, ssoSessionConfigName, configFile, cacheDir,
                    directory, mode, pc, lg, ret >>

\* main.go 153-183: create the cache directory, pick the file name, and
\* start os.WriteFile on the temporary file.
DfPersistBegin ==
    /\ df.pc = "persist"
    /\ \E outcome \in {"ok", "mkdirError", "openError"} :
         LET name == FreshName(cacheDir)
             made == [cacheDir EXCEPT !.exists = TRUE]
         IN IF outcome = "mkdirError"
            THEN /\ df' = DfReturned(ErrIO)
                 /\ UNCHANGED cacheDir
            ELSE IF outcome = "openError"
            THEN /\ df' = DfReturned(ErrIO)
                 /\ cacheDir' = made
            ELSE /\ df' = [df EXCEPT !.pc = "write", !.name = name]
                 /\ cacheDir' = PutFile(made,
                        TokenFile(name, TmpSuffix, FALSE, ssoStartURL,
                                  df.tokenOut.accessToken, now))
    /\ UNCHANGED << flagVars, ssoSessionConfigName, configFile, now,
                    directory, mode, pc, lg, ret, hist >>

\* main.go 183-185: os.WriteFile finishes, or fails part-way.
DfPersistWrite ==
    /\ df.pc = "write"
    /\ \/ /\ df' = DfReturned(ErrIO)
          /\ UNCHANGED cacheDir
       \/ /\ df' = [df EXCEPT !.pc = "rename"]
          /\ cacheDir' = PutFile(cacheDir,
                 TokenFile(df.name, TmpSuffix, TRUE, ssoStartURL,
                           df.tokenOut.accessToken, now))
    /\ UNCHANGED << flagVars, ssoSessionConfigName, configFile, now,
                    directory, mode, pc, lg, ret, hist >>

\* main.go 186-192: os.Rename, and the removal of the temporary file when it
\* fails.
DfRename ==
    /\ df.pc = "rename"
    /\ \/ /\ df' = DfReturned(ErrIO)
          /\ cacheDir' = RemoveFile(cacheDir, df.name, TmpSuffix)
       \/ /\ df' = DfReturned(Nil)
          /\ cacheDir' = PutFile(RemoveFile(cacheDir, df.name, TmpSuffix),
                 TokenFile(df.name, "json", TRUE, ssoStartURL,
                           df.tokenOut.accessToken, now))
    /\ UNCHANGED << flagVars, ssoSessionConfigName, configFile, now,
                    directory, mode, pc, lg, ret, hist >>

DeviceFlowStep ==
    \/ DfRegister
    \/ DfStartAuthorization
    \/ DfPoll
    \/ DfSleep
    \/ DfPersistBegin
    \/ DfPersistWrite
    \/ DfRename

-----------------------------------------------------------------------------
(* ProfileSynchronizer: profile naming, profileExists,                     *)
(* writeProfileToConfig, configureSsoProfiles                              *)

AwsWord == << "AWS" >>
AccessWord == << "Access" >>
Underscore == "_"
Dash == "-"
\* The characters the class [_\s] matches (main.go 426).
SeparatorChars == { "_", " ", "\t" }

\* An account of the directory with the roles the user holds in it.
Account(id, name, roles) ==
    [AccountId |-> id, AccountName |-> name, Roles |-> roles]

CombinedRole(account, roleName) ==
    [AccountId |-> account.AccountId, RoleName |-> roleName,
     AccountName |-> account.AccountName]

RECURSIVE getCombinedListOfSsoAccountsAndRoles(_, _)
\* main.go 340-367, without the listing errors: for every account in
\* listing order, its roles that are among roleNames.
getCombinedListOfSsoAccountsAndRoles(accounts, roleNames) ==
    IF accounts = << >> THEN << >>
    ELSE LET a == accounts[1]
             wanted == SelectSeq(a.Roles, LAMBDA r : r \in Range(roleNames))
         IN [i \in 1..Len(wanted) |-> CombinedRole(a, wanted[i])]
            \o getCombinedListOfSsoAccountsAndRoles(Tail(accounts), roleNames)

\* Variant: strips "AWS" only.
generatePrefixKeepingAccess(roleName) ==
    LET cleaned == TrimPrefix(roleName, AwsWord)
    IN IF cleaned # EmptyString THEN cleaned \o << Underscore >> ELSE EmptyString

\* generatePrefixFromRole (main.go 413-422).
generatePrefixFromRole(roleName) ==
    LET cleaned == TrimSuffix(TrimPrefix(roleName, AwsWord), AccessWord)
    IN IF cleaned # EmptyString THEN cleaned \o << Underscore >> ELSE EmptyString

\* Variant: every separator character becomes a hyphen of its own.
ReplaceEachSeparator(s) ==
    [i \in 1..Len(s) |-> IF s[i] \in SeparatorChars THEN Dash ELSE s[i]]

RECURSIVE ReplaceSeparatorRuns(_)
\* regexp `[_\s]+` ReplaceAllString(s, "-") (main.go 426-427).
ReplaceSeparatorRuns(s) ==
    IF s = << >> THEN << >>
    ELSE IF s[1] \in SeparatorChars
    THEN IF Len(s) > 1 /\ s[2] \in SeparatorChars
         THEN ReplaceSeparatorRuns(Tail(s))
         ELSE << Dash >> \o ReplaceSeparatorRuns(Tail(s))
    ELSE << s[1] >> \o ReplaceSeparatorRuns(Tail(s))

\* getProfileNameFromRole (main.go 425-444); prefixFlag and autoFlag are the
\* globals profilePrefix and useAutoPrefix.
getProfileNameFromRole(role, prefixFlag, autoFlag) ==
    LET safeAccountName == ReplaceSeparatorRuns(role.AccountName)
        prefix == IF prefixFlag # EmptyString THEN prefixFlag
                  ELSE IF autoFlag THEN generatePrefixFromRole(role.RoleName)
                  ELSE EmptyString
    IN IF prefix # EmptyString
       THEN prefix \o safeAccountName \o << Underscore >> \o role.AccountId
       ELSE safeAccountName \o << Underscore >> \o role.AccountId

\* fmt.Sprintf("profile %s", profileName)
ProfileSectionName(profileName) == ProfilePrefixWord \o profileName

\* Variant: the section alone counts, with or without the sso_session key.
profileExistsBySection(profileName, file) ==
    /\ ~LoadErr(file)
    /\ HasSection(Load(file), ProfileSectionName(profileName))

\* profileExists (main.go 708-716).
profileExists(profileName, file) ==
    /\ ~LoadErr(file)
    /\ HasKey(Load(file), ProfileSectionName(profileName), KeySession)

\* The naming configuration and the values written into profiles, as the
\* globals hold them.
SyncConfig(prefix, auto, session, region, output, dry) ==
    [prefix |-> prefix, auto |-> auto, session |-> session, region |-> region,
     output |-> output, dry |-> dry]

\* The file operations of writeProfileToConfig the environment may fail.
\* "create": os.MkdirAll or os.WriteFile fails; "save": cfg.SaveTo fails.
WriteFailures == { "none", "create", "save" }

\* The keys of main.go 688-692 set through the section named name.
ProfileKeys(doc, name, role, cfg) ==
    SetValue(SetValue(SetValue(SetValue(SetValue(doc,
        name, KeySession, cfg.session),
        name, KeyAccountId, role.AccountId),
        name, KeyRoleName, role.RoleName),
        name, KeyProfileRegion, cfg.region),
        name, KeyOutput, cfg.output)

\* writeProfileToConfig (main.go 656-705): [err, file].  cfg carries the
\* globals it reads: session, region, output, dry.
writeProfileToConfig(file, profileName, role, cfg, fail) ==
    LET loaded == IF LoadErr(file) THEN EmptyDoc ELSE Load(file)
        sectionName == ProfileSectionName(profileName)
        doc == NewSection(loaded, sectionName)
        saved == ProfileKeys(doc, sectionName, role, cfg)
    IN IF cfg.dry THEN [err |-> Nil, file |-> file]
       ELSE IF fail = "create" THEN [err |-> ErrIO, file |-> file]
       ELSE IF fail = "save"
       THEN \* os.WriteFile(path, []byte{}) has emptied the file already
            [err |-> ErrIO, file |-> FileOf(<< >>, TRUE)]
       ELSE [err |-> Nil, file |-> SaveTo(saved)]

\* The listing calls configureSsoProfiles makes that the environment may
\* fail: listAllRolesPerAccount (dry-run only) and
\* getCombinedListOfSsoAccountsAndRoles.
ListFailures == { "none", "listAll", "combined" }

ErrListing == << "operation error SSO: ", "ListAccounts" >>

RECURSIVE SyncFrom(_, _, _, _, _)
\* The loop of main.go 740-763 from the i-th entitlement on; acc is
\* [file, added, skipped, failed, out].
SyncFrom(roles, i, acc, cfg, fails) ==
    IF i > Len(roles) THEN acc
    ELSE LET role == roles[i]
             profileName == getProfileNameFromRole(role, cfg.prefix, cfg.auto)
         IN IF profileExists(profileName, acc.file)
            THEN SyncFrom(roles, i + 1,
                     [acc EXCEPT
                        !.skipped = @ + 1,
                        !.out = Append(@, [ev |-> "skip", name |-> profileName,
                                           session |-> cfg.session])],
                     cfg, fails)
            ELSE LET w == writeProfileToConfig(acc.file, profileName, role, cfg,
                                               fails[i])
                 IN SyncFrom(roles, i + 1,
                     [file |-> w.file,
                      added |-> acc.added + (IF w.err = Nil THEN 1 ELSE 0),
                      skipped |-> acc.skipped,
                      failed |-> acc.failed + (IF w.err = Nil THEN 0 ELSE 1),
                      out |-> Append(acc.out,
                                 [ev |-> IF w.err = Nil THEN "add" ELSE "failed",
                                  name |-> profileName,
                                  session |-> cfg.session])],
                     cfg, fails)

\* configureSsoProfiles (main.go 719-770):
\* [err, file, added, skipped, failed, out].
configureSsoProfiles(file, accounts, roleNames, cfg, listFail, fails) ==
    LET roles == getCombinedListOfSsoAccountsAndRoles(accounts, roleNames)
        acc0 == [file |-> file, added |-> 0, skipped |-> 0, failed |-> 0,
                 out |-> << >>]
    IN IF (cfg.dry /\ listFail = "listAll") \/ listFail = "combined"
       THEN acc0 @@ [err |-> ErrListing]
       ELSE SyncFrom(roles, 1, acc0, cfg, fails) @@ [err |-> Nil]

-----------------------------------------------------------------------------
(* Login orchestration: login() and the tail of main()                     *)

\* Variant: the loop makes one more pass.
ElevenRevalidations == 10 + 1

MaxRevalidations == 10

\* time.Sleep(500 * time.Millisecond), in ticks.
RevalidationSleep == TicksPerSecond \div 2

ErrNoValidToken == << "SSO login did not produce a valid access token" >>

\* Variant: the test for an empty role filter never succeeds.
RoleFilterNeverEmpty(roleNames) == FALSE

\* len(ssoRoleNames) == 0 (main.go 814, 897).
NoRolesRequested(roleNames) == roleNames = << >>

\* Variant: the error of an earlier attempt outlives the successful one.
LastErrKept(lastErr) == lastErr

\* lastErr = nil before the break (main.go 865).
LastErrOnSuccess(lastErr) == Nil

\* The file operations of ensureSsoSessionConfigPresent the environment may
\* fail.
EnsureFailures == { "none", "read", "write" }

\* getAccessTokenFunc (main.go 198-200): the cache lookup; readFail is an
\* os.ReadDir error of the environment.
getAccessTokenFunc(dir, target, readFail) ==
    IF readFail
    THEN [err |-> ErrReadDir, token |-> EmptyString, path |-> 0,
          candidates |-> << >>]
    ELSE getAccessTokenFromSsoSessionWithPath(dir, target)

\* The common tail of login(): session detection (main.go 796-811 and
\* 879-889), configureSsoSessionConfig (893-895; the fast path of 792-822 has
\* no such step: withEnsure is FALSE there), and profile synchronisation
\* (815-822, 897-901).  g carries the globals: startURL, region, roleNames,
\* prefix, auto, output, dry.
\* Result: [err, name, file, failed, events, out].
resolveAndSync(file, name, accounts, g, withEnsure, ensureFail, listFail, fails) ==
    LET found == findAllMatchingSsoSessionNames(g.startURL, g.region, file)
        detect == IsDefaultName(name) /\ found.err = Nil
        name1 == IF detect /\ Len(found.matches) = 1 THEN found.matches[1]
                 ELSE name
        e == IF withEnsure
             THEN ensureSsoSessionConfigPresent(file, name1, g.startURL,
                                                g.region, g.dry, ensureFail)
             ELSE [created |-> FALSE, err |-> Nil, name |-> name1,
                   file |-> file, out |-> << >>]
        cfg == SyncConfig(g.prefix, g.auto, e.name, g.region, g.output, g.dry)
        s == configureSsoProfiles(e.file, accounts, g.roleNames, cfg,
                                  listFail, fails)
        ensured == IF withEnsure THEN << "resolve", "ensure" >> ELSE << "resolve" >>
    IN IF detect /\ Len(found.matches) > 1
       THEN [err |-> AmbiguityError(g.startURL, g.region), name |-> name,
             file |-> file, failed |-> 0,
             events |-> << "resolve", "ambiguous" >>, sessionOut |-> << >>,
             out |-> << >>]
       ELSE IF e.err # Nil
       THEN [err |-> e.err, name |-> e.name, file |-> e.file, failed |-> 0,
             events |-> Append(ensured, "ensureFailed"), sessionOut |-> e.out,
             out |-> << >>]
       ELSE IF NoRolesRequested(g.roleNames)
       THEN [err |-> Nil, name |-> e.name, file |-> e.file, failed |-> 0,
             events |-> ensured, sessionOut |-> e.out, out |-> << >>]
       ELSE [err |-> s.err, name |-> e.name, file |-> s.file,
             failed |-> s.failed,
             events |-> ensured \o (IF s.err = Nil THEN << "sync" >>
                                    ELSE << "sync", "syncFailed" >>),
             sessionOut |-> e.out, out |-> s.out]

-----------------------------------------------------------------------------
(* Bounded inputs                                                          *)

MaxSlashes == 1      \* trailing slashes on a start URL
MaxBlocks == 2       \* blocks in an initial config file
MaxCalls == 2        \* consecutive calls of one entry point

UrlA == << "https://a.test/start" >>
UrlB == << "https://b.test/start" >>
Region1 == defaultSSORegion
Region2 == << "eu-west-1" >>
NameCorp == << "corp" >>
NameDev == << "dev" >>

RECURSIVE Slashes(_)
Slashes(n) == IF n = 0 THEN << >> ELSE << Slash >> \o Slashes(n - 1)

StartUrls == { u \o Slashes(n) : u \in {UrlA}, n \in 0..MaxSlashes }

SessionNames == { defaultSSOSessionConfigName, EmptyString, NameCorp }

\* A session block as a user or another tool wrote it: the start URL is kept
\* as typed.
RawSessionBlock(name, url, region) ==
    << HdrLine(SessionSectionName(name)),
       KvLine(KeyStartUrl, url),
       KvLine(KeyRegion, region) >>

ConfigBlocks ==
    { RawSessionBlock(defaultSSOSessionConfigName, UrlA, Region1),
      RawSessionBlock(defaultSSOSessionConfigName, UrlB, Region1),
      RawSessionBlock(NameCorp, UrlA \o << Slash >>, Region1),
      RawSessionBlock(NameDev, UrlA, Region1),
      RawSessionBlock(NameDev, UrlA, Region2),
      << CmtLine(SessionSectionName(defaultSSOSessionConfigName)) >>,
      << BadLine >> }

RECURSIVE Flatten(_)
Flatten(bs) == IF bs = << >> THEN << >> ELSE bs[1] \o Flatten(Tail(bs))

SeqsUpTo(S, n) == UNION { [1..m -> S] : m \in 0..n }

ConfigFiles ==
    { NoFile } \cup
    { FileOf(Flatten(bs), nl) : bs \in SeqsUpTo(ConfigBlocks, MaxBlocks),
                                nl \in BOOLEAN }

\* Roles and accounts of the directory.
RoleAdmin == << "AWS", "Administrator", "Access" >>
RoleReadOnly == << "AWS", "ReadOnly", "Access" >>
RolePlainAdmin == << "Administrator" >>

AccountProd ==
    Account(<< "111111111111" >>, << "Prod", " ", "_", "Main" >>,
            << RoleAdmin, RolePlainAdmin >>)
AccountDev == Account(<< "222222222222" >>, << "Dev" >>, << RoleAdmin >>)

Directories == { << AccountProd >>, << AccountProd, AccountDev >>, << >> }

RoleFilters == { << RoleAdmin >>, << RoleReadOnly, RolePlainAdmin, RoleAdmin >> }

CustomPrefix == << "team-" >>

\* A profile block as an earlier run or a user wrote it.
ProfileBlock(profileName, session) ==
    << HdrLine(ProfileSectionName(profileName)),
       KvLine(KeySession, session),
       KvLine(KeyProfileRegion, Region2) >>

\* A profile section that lacks the sso_session key.
LegacyProfileBlock(profileName) ==
    << HdrLine(ProfileSectionName(profileName)),
       KvLine(KeyProfileRegion, Region2) >>

ProdAdminProfile ==
    getProfileNameFromRole(CombinedRole(AccountProd, RoleAdmin), EmptyString, TRUE)

SyncConfigFiles ==
    { NoFile,
      FileOf(<< >>, TRUE),
      FileOf(RawSessionBlock(NameCorp, UrlA, Region1), TRUE),
      FileOf(RawSessionBlock(NameCorp, UrlA, Region1)
             \o ProfileBlock(ProdAdminProfile, NameDev), TRUE),
      FileOf(<< CmtLine(ProfileSectionName(ProdAdminProfile)) >>
             \o LegacyProfileBlock(ProdAdminProfile), TRUE),
      FileOf(RawSessionBlock(NameCorp, UrlA, Region1) \o << BadLine >>, TRUE) }

-----------------------------------------------------------------------------
(* Entry point: ensureSsoSessionConfigPresent called directly              *)

IdleLg ==
    [i |-> 0, lastErr |-> Nil, err |-> Nil, accessToken |-> EmptyString,
     tokenPath |-> 0]

InitEnsure ==
    /\ mode = "ensure"
    /\ ssoRoleNames = << >>
    /\ profilePrefix = EmptyString
    /\ useAutoPrefix = TRUE
    /\ ssoStartURL \in StartUrls
    /\ ssoSessionConfigName \in SessionNames
    /\ ssoRegion = Region1
    /\ dryRun \in BOOLEAN
    /\ profileOutput = << "json" >>
    /\ configFile \in ConfigFiles
    /\ cacheDir = << >>
    /\ now = 0
    /\ directory = << >>
    /\ pc = "idle"
    /\ df = IdleDf
    /\ lg = IdleLg
    /\ ret = [op |-> "none"]
    /\ hist = Hist0(cacheDir, configFile)

EnsureCall ==
    /\ mode = "ensure"
    /\ hist.calls < MaxCalls
    /\ \E fail \in {"none", "read", "write"} :
         LET r == ensureSsoSessionConfigPresent(configFile, ssoSessionConfigName,
                                                ssoStartURL, ssoRegion, dryRun, fail)
         IN /\ configFile' = r.file
            /\ ssoSessionConfigName' = r.name
            /\ ret' = [op |-> "ensure", created |-> r.created, err |-> r.err,
                       out |-> r.out, fail |-> fail,
                       fileBefore |-> configFile,
                       nameBefore |-> ssoSessionConfigName]
            /\ hist' = [hist EXCEPT
                          !.calls = @ + 1,
                          !.runs = Append(@, [err |-> r.err, created |-> r.created,
                                              name |-> ssoSessionConfigName])]
    /\ UNCHANGED << flagVars, cacheDir, now, directory, mode, pc, df, lg >>

NextEnsure == EnsureCall

SpecEnsure == InitEnsure /\ [][NextEnsure]_vars

-----------------------------------------------------------------------------
(* Properties: SessionReconciler                                           *)

\* The sso-session sections of a file that declare the target endpoint:
\* start URL equal up to trailing slashes, and the same region.
MatchingSessions(file, startURL, region) ==
    LET doc == Load(file) IN
    { i \in DOMAIN doc :
        /\ HasPrefix(doc[i].name, SsoSessionPrefix)
        /\ TrimRight(KeyString(doc, doc[i].name, KeyStartUrl), Slash)
             = TrimRight(startURL, Slash)
        /\ KeyString(doc, doc[i].name, KeyRegion) = region }

SessionLabel(file, i) ==
    LET n == Load(file)[i].name IN SubSeq(n, Len(SsoSessionPrefix) + 1, Len(n))

EnsureReturned == ret.op = "ensure"

EnsureMatchesBefore == MatchingSessions(ret.fileBefore, ssoStartURL, ssoRegion)

\* C4 as stated: with the default session name and two or more matching
\* sso-session sections in the file (a file that is read and loads without
\* error), ensure returns an error and leaves the file unchanged.
C4_AmbiguityAsStated ==
    (EnsureReturned /\ IsDefaultName(ret.nameBefore)
       /\ ret.fail = "none" /\ ~LoadErr(ret.fileBefore)
       /\ Cardinality(EnsureMatchesBefore) >= 2)
    => (ret.err # Nil /\ configFile = ret.fileBefore)

\* C4 amended: with the default session name, a config file that loads as INI
\* and in which the header text of the requested name does not occur, and two
\* or more matching sso-session sections, ensure returns an error and leaves
\* the file and the session name unchanged.
C4_AmbiguityDetected ==
    (EnsureReturned /\ IsDefaultName(ret.nameBefore)
       /\ ~LoadErr(ret.fileBefore)
       /\ ~ContainsHeader(ret.fileBefore, ret.nameBefore)
       /\ Cardinality(EnsureMatchesBefore) >= 2)
    => (/\ ret.err # Nil
        /\ ~ret.created
        /\ configFile = ret.fileBefore
        /\ ssoSessionConfigName = ret.nameBefore)

C4_Witness ==
    /\ EnsureReturned /\ IsDefaultName(ret.nameBefore)
    /\ ret.fail = "none"
    /\ ~LoadErr(ret.fileBefore)
    /\ ~ContainsHeader(ret.fileBefore, ret.nameBefore)
    /\ Cardinality(EnsureMatchesBefore) >= 2
    /\ HasPrefix(ret.err, ErrAmbiguous)

\* C5 as stated: with the default session name and exactly one matching
\* sso-session section (in a file that is read and loads without error),
\* ensure returns created = false and no error, rebinds the session name to
\* that section's name and appends nothing.
C5_ReuseAsStated ==
    (EnsureReturned /\ IsDefaultName(ret.nameBefore)
       /\ ret.fail = "none" /\ ~LoadErr(ret.fileBefore)
       /\ Cardinality(EnsureMatchesBefore) = 1)
    => (/\ ~ret.created /\ ret.err = Nil
        /\ \A i \in EnsureMatchesBefore :
              ssoSessionConfigName = SessionLabel(ret.fileBefore, i)
        /\ configFile = ret.fileBefore)

\* C5 amended: with the default session name, a config file that is read and
\* loads as INI, exactly one matching sso-session section, and no occurrence
\* of the requested name's header text other than as that section's name,
\* ensure returns created = false and no error, rebinds the session name to
\* that section's name and leaves the file unchanged, in dry-run and in real
\* mode.
C5_ReuseOverDuplication ==
    (EnsureReturned /\ IsDefaultName(ret.nameBefore)
       /\ ret.fail # "read"
       /\ ~LoadErr(ret.fileBefore)
       /\ Cardinality(EnsureMatchesBefore) = 1
       /\ (ContainsHeader(ret.fileBefore, ret.nameBefore)
             => \A i \in EnsureMatchesBefore :
                  SessionLabel(ret.fileBefore, i) = ret.nameBefore))
    => (/\ ~ret.created /\ ret.err = Nil
        /\ \A i \in EnsureMatchesBefore :
              ssoSessionConfigName = SessionLabel(ret.fileBefore, i)
        /\ configFile = ret.fileBefore)

C5_Witness ==
    /\ EnsureReturned /\ IsDefaultName(ret.nameBefore)
    /\ ~LoadErr(ret.fileBefore)
    /\ ~ContainsHeader(ret.fileBefore, ret.nameBefore)
    /\ Cardinality(EnsureMatchesBefore) = 1
    /\ ~dryRun
    /\ ssoSessionConfigName # ret.nameBefore
    /\ ~ret.created /\ ret.err = Nil
    /\ configFile = ret.fileBefore

-----------------------------------------------------------------------------
(* Entry point: the cache lookup called directly                           *)

MaxFiles == 2        \* entries in an initial cache directory
MaxMtime == 3        \* latest modification time of an initial entry, in ticks

Token(i) == << "token", i >>

StoredUrls == StartUrls \cup { UrlB }

\* What the i-th entry of a directory may be.
CacheFilesAt(i) ==
    { CacheFile(i, "json", "record", u, Token(i), t) :
        u \in StoredUrls, t \in 0..MaxMtime }
    \cup { CacheFile(i, "json", "record", UrlA, NotAString, t) : t \in 0..MaxMtime }
    \cup { CacheFile(i, "json", "record", NotAString, Token(i), MaxMtime),
           CacheFile(i, "json", "garbage", NotAString, NotAString, MaxMtime),
           CacheFile(i, "json", "locked", UrlA, Token(i), MaxMtime),
           CacheFile(i, "tmp", "record", UrlA, Token(i), MaxMtime) }

CacheDirsOf(n) ==
    { [exists |-> TRUE, files |-> fs] :
        fs \in { g \in UNION { [1..m -> UNION { CacheFilesAt(i) : i \in 1..n }] :
                               m \in 0..n } :
                 \A i \in DOMAIN g : g[i].name = i } }

CacheDirs == { NoCacheDir } \cup CacheDirsOf(MaxFiles)

InitCache ==
    /\ mode = "cache"
    /\ ssoRoleNames = << >>
    /\ profilePrefix = EmptyString
    /\ useAutoPrefix = TRUE
    /\ ssoStartURL \in StartUrls
    /\ ssoSessionConfigName = defaultSSOSessionConfigName
    /\ ssoRegion = Region1
    /\ dryRun = FALSE
    /\ profileOutput = << "json" >>
    /\ configFile = NoFile
    /\ cacheDir \in CacheDirs
    /\ now = MaxMtime
    /\ directory = << >>
    /\ pc = "idle"
    /\ df = IdleDf
    /\ lg = IdleLg
    /\ ret = [op |-> "none"]
    /\ hist = Hist0(cacheDir, configFile)

\* getAccessTokenFunc() with its default binding (main.go 198-200).
LookupCall ==
    /\ mode = "cache"
    /\ hist.calls < MaxCalls
    /\ LET r == getAccessTokenFromSsoSessionWithPath(cacheDir, ssoStartURL)
       IN ret' = [op |-> "lookup", err |-> r.err, token |-> r.token,
                  path |-> r.path,
                  candidates |-> { r.candidates[i].path : i \in DOMAIN r.candidates }]
    /\ hist' = [hist EXCEPT !.calls = @ + 1]
    /\ UNCHANGED << flagVars, ssoSessionConfigName, configFile, cacheDir, now,
                    directory, mode, pc, df, lg >>

NextCache == LookupCall

SpecCache == InitCache /\ [][NextCache]_vars

-----------------------------------------------------------------------------
(* Properties: TokenCacheStore                                             *)

LookupReturned == ret.op = "lookup"

\* The directory entry of a given file name.
EntryNamed(n) ==
    CHOOSE f \in Range(cacheDir.files) : f.name = n

\* A well-formed credential record: a readable .json file holding a JSON
\* object with a string startUrl and a string accessToken.
WellFormed(f) ==
    /\ f.ext = "json" /\ f.body = "record"
    /\ f.startUrl # NotAString /\ f.accessToken # NotAString

\* C7 (as stated): whenever the lookup has at least one candidate, the entry
\* it returns has the maximum modification time over all candidates.
C7_FreshestReturned ==
    (LookupReturned /\ ret.candidates # {})
    => /\ ret.err = Nil
       /\ ret.path \in ret.candidates
       /\ \A n \in ret.candidates : EntryNamed(n).mtime <= EntryNamed(ret.path).mtime

\* C8 (as stated): a well-formed cache entry is a candidate of the lookup if
\* and only if its stored startUrl and the target start URL are equal after
\* stripping the trailing slashes of both.
C8_TrailingSlashInsensitive ==
    LookupReturned
    => \A f \in Range(cacheDir.files) :
         WellFormed(f)
         => ((f.name \in ret.candidates)
               <=> (TrimRight(f.startUrl, Slash) = TrimRight(ssoStartURL, Slash)))

-----------------------------------------------------------------------------
(* Entry point: runAwsSsoLogin called directly                             *)

\* No cache directory yet, an empty one, or one holding an earlier token,
\* written long before the call or one tick before it.
FlowCacheDirs ==
    { NoCacheDir,
      [exists |-> TRUE, files |-> << >>],
      [exists |-> TRUE,
       files |-> << CacheFile(1, "json", "record", UrlA, Token(1), 0) >>],
      [exists |-> TRUE,
       files |-> << CacheFile(1, "json", "record", UrlA, Token(1), MaxMtime - 1) >>] }

InitFlow ==
    /\ mode = "flow"
    /\ ssoRoleNames = << >>
    /\ profilePrefix = EmptyString
    /\ useAutoPrefix = TRUE
    /\ ssoStartURL \in StartUrls
    /\ ssoSessionConfigName = defaultSSOSessionConfigName
    /\ ssoRegion = Region1
    /\ dryRun \in BOOLEAN
    /\ profileOutput = << "json" >>
    /\ configFile = NoFile
    /\ cacheDir \in FlowCacheDirs
    /\ now = MaxMtime
    /\ directory = << >>
    /\ pc = "idle"
    /\ df = IdleDf
    /\ lg = IdleLg
    /\ ret = [op |-> "none"]
    /\ hist = Hist0(cacheDir, configFile)

\* runAwsSsoLogin(session) is called.
FlowCall ==
    /\ mode \in {"flow", "concurrent"}
    /\ df.pc = "idle"
    /\ df' = NewDf
    /\ hist' = [Hist0(cacheDir, configFile) EXCEPT !.calls = hist.calls + 1]
    /\ UNCHANGED << flagVars, ssoSessionConfigName, configFile, cacheDir, now,
                    directory, mode, pc, lg, ret >>

NextFlow == FlowCall \/ DeviceFlowStep

SpecFlow == InitFlow /\ [][NextFlow]_vars

\* The flow is sequential code: whenever it can take a step, it does.
FairSpecFlow == SpecFlow /\ WF_vars(DeviceFlowStep)

-----------------------------------------------------------------------------
(* Entry point: a cache lookup running beside runAwsSsoLogin               *)

\* The lookup of main.go 214-266 step by step, as another invocation of the
\* program runs it: ret holds its locals while it is under way.
InitConcurrent ==
    /\ mode = "concurrent"
    /\ ssoRoleNames = << >>
    /\ profilePrefix = EmptyString
    /\ useAutoPrefix = TRUE
    /\ ssoStartURL \in StartUrls
    /\ ssoSessionConfigName = defaultSSOSessionConfigName
    /\ ssoRegion = Region1
    /\ dryRun = FALSE
    /\ profileOutput = << "json" >>
    /\ configFile = NoFile
    /\ cacheDir \in FlowCacheDirs
    /\ now = MaxMtime
    /\ directory = << >>
    /\ pc = "idle"
    /\ df = IdleDf
    /\ lg = IdleLg
    /\ ret = [op |-> "none"]
    /\ hist = Hist0(cacheDir, configFile)

\* main.go 217-220: os.ReadDir lists the entries there are at this moment.
RdList ==
    /\ mode = "concurrent"
    /\ ret.op = "none"
    /\ ret' = IF ~cacheDir.exists
              THEN [op |-> "lookup", err |-> ErrReadDir, token |-> EmptyString,
                    path |-> 0, listed |-> << >>, cands |-> << >>, read |-> { }]
              ELSE [op |-> "reading", i |-> 1,
                    listed |-> [k \in DOMAIN cacheDir.files |->
                                  [name |-> cacheDir.files[k].name,
                                   ext |-> cacheDir.files[k].ext]],
                    cands |-> << >>, read |-> { }]
    /\ UNCHANGED << flagVars, ssoSessionConfigName, configFile, cacheDir, now,
                    directory, mode, pc, df, lg, hist >>

\* main.go 228-254: one pass of the loop over the listed entries: the suffix
\* test, os.ReadFile of what the name holds now, and the candidate test.
RdFile ==
    /\ ret.op = "reading"
    /\ ret.i <= Len(ret.listed)
    /\ LET e == ret.listed[ret.i]
           cur == SelectSeq(cacheDir.files,
                            LAMBDA f : f.name = e.name /\ f.ext = e.ext)
       IN ret' = IF e.ext # "json" \/ cur = << >> \/ cur[1].body = "locked"
                 THEN [ret EXCEPT !.i = @ + 1]
                 ELSE [ret EXCEPT
                         !.i = @ + 1,
                         !.read = @ \cup { cur[1] },
                         !.cands = IF IsCandidate(cur[1], ssoStartURL)
                                   THEN Append(@, Candidate(cur[1])) ELSE @]
    /\ UNCHANGED << flagVars, ssoSessionConfigName, configFile, cacheDir, now,
                    directory, mode, pc, df, lg, hist >>

\* main.go 256-265: the choice among the candidates, and the return.
RdFinish ==
    /\ ret.op = "reading"
    /\ ret.i > Len(ret.listed)
    /\ ret' = IF ret.cands = << >>
              THEN [op |-> "lookup", err |-> ErrNoToken, token |-> EmptyString,
                    path |-> 0, listed |-> ret.listed, cands |-> ret.cands,
                    read |-> ret.read]
              ELSE LET latest == Latest(ret.cands, ret.cands[1]) IN
                   [op |-> "lookup", err |-> Nil, token |-> latest.token,
                    path |-> latest.path, listed |-> ret.listed,
                    cands |-> ret.cands, read |-> ret.read]
    /\ UNCHANGED << flagVars, ssoSessionConfigName, configFile, cacheDir, now,
                    directory, mode, pc, df, lg, hist >>

NextConcurrent == FlowCall \/ DeviceFlowStep \/ RdList \/ RdFile \/ RdFinish

SpecConcurrent == InitConcurrent /\ [][NextConcurrent]_vars

-----------------------------------------------------------------------------
(* Entry point: configureSsoProfiles called directly                       *)

InitSync ==
    /\ mode = "sync"
    /\ ssoRoleNames \in RoleFilters
    /\ profilePrefix \in { EmptyString, CustomPrefix }
    /\ useAutoPrefix \in BOOLEAN
    /\ ssoStartURL = UrlA
    /\ ssoSessionConfigName = NameCorp
    /\ ssoRegion = Region1
    /\ dryRun \in BOOLEAN
    /\ profileOutput = << "json" >>
    /\ configFile \in SyncConfigFiles
    /\ cacheDir = NoCacheDir
    /\ now = 0
    /\ directory \in Directories
    /\ pc = "idle"
    /\ df = IdleDf
    /\ lg = IdleLg
    /\ ret = [op |-> "none"]
    /\ hist = Hist0(cacheDir, configFile)

\* configureSsoProfiles(accessToken) is called; the environment chooses which
\* listing call and which profile writes fail.
SyncCall ==
    /\ mode = "sync"
    /\ hist.calls < MaxCalls
    /\ LET roles == getCombinedListOfSsoAccountsAndRoles(directory, ssoRoleNames)
           cfg == SyncConfig(profilePrefix, useAutoPrefix, ssoSessionConfigName,
                             ssoRegion, profileOutput, dryRun)
       IN \E listFail \in ListFailures, fails \in [1..Len(roles) -> WriteFailures] :
            \E r \in { configureSsoProfiles(configFile, directory, ssoRoleNames,
                                           cfg, listFail, fails) } :
               /\ configFile' = r.file
               /\ ret' = [op |-> "sync", err |-> r.err, added |-> r.added,
                          skipped |-> r.skipped, failed |-> r.failed,
                          out |-> r.out, fileBefore |-> configFile]
               /\ hist' = [hist EXCEPT
                             !.calls = @ + 1,
                             !.failedWrites = @ + r.failed,
                             !.runs = Append(@, [err |-> r.err, added |-> r.added,
                                                 skipped |-> r.skipped,
                                                 failed |-> r.failed])]
    /\ UNCHANGED << flagVars, ssoSessionConfigName, cacheDir, now, directory,
                    mode, pc, df, lg >>

NextSync == SyncCall

SpecSync == InitSync /\ [][NextSync]_vars

-----------------------------------------------------------------------------
(* Properties: ProfileSynchronizer                                         *)

SyncReturned == ret.op = "sync"

\* The sections of a file and the keys and values in each, whatever the
\* order and layout of the text; a file that does not load has none.
SectionsAndKeys(file) ==
    IF LoadErr(file) THEN { }
    ELSE LET doc == Load(file) IN
         { << doc[i].name, k >> : i \in DOMAIN doc, k \in { << >> } }
         \cup UNION { { << doc[i].name, doc[i].keys[j] >> : j \in DOMAIN doc[i].keys }
                      : i \in DOMAIN doc }

Entitlements == getCombinedListOfSsoAccountsAndRoles(directory, ssoRoleNames)

\* Two runs in real mode have completed, both with the entitlement list in
\* hand.
SecondRunDone ==
    /\ SyncReturned /\ ~dryRun
    /\ Len(hist.runs) = 2
    /\ hist.runs[1].err = Nil /\ hist.runs[2].err = Nil

\* C2: reconcile idempotence: the second of two real-mode runs with the same
\* entitlement list and naming configuration adds no profile, skips every
\* entitlement, and leaves the sections and keys of the config file as the
\* first run left them.
C2_ReconcileIdempotent ==
    SecondRunDone
    => /\ hist.runs[2].added = 0
       /\ hist.runs[2].skipped = Len(Entitlements)
       /\ SectionsAndKeys(configFile) = SectionsAndKeys(ret.fileBefore)

\* The same, for pairs of runs in which no profile write failed.
ReconcileIdempotentWithoutWriteFailure ==
    (SecondRunDone /\ hist.failedWrites = 0) => C2_ReconcileIdempotent

-----------------------------------------------------------------------------
(* Entry point: main() calling login()                                     *)

LoginConfigFiles ==
    { NoFile,
      FileOf(RawSessionBlock(NameCorp, UrlA \o << Slash >>, Region1), TRUE),
      FileOf(RawSessionBlock(NameCorp, UrlA, Region1)
             \o RawSessionBlock(NameDev, UrlA, Region1), TRUE),
      FileOf(RawSessionBlock(defaultSSOSessionConfigName, UrlA, Region1)
             \o ProfileBlock(ProdAdminProfile, defaultSSOSessionConfigName), TRUE),
      FileOf(<< CmtLine(SessionSectionName(defaultSSOSessionConfigName)) >>, TRUE),
      FileOf(<< BadLine >>, TRUE) }

\* No cached credential, or one written by an earlier run.
LoginCacheDirs ==
    { NoCacheDir,
      [exists |-> TRUE,
       files |-> << CacheFile(1, "json", "record", UrlA, Token(1), 0) >>] }

Init ==
    /\ mode = "login"
    /\ ssoRoleNames \in { << >>, << RoleAdmin >> }
    /\ profilePrefix = EmptyString
    /\ useAutoPrefix = TRUE
    /\ ssoStartURL \in StartUrls
    /\ ssoSessionConfigName \in { defaultSSOSessionConfigName, NameCorp }
    /\ ssoRegion = Region1
    /\ dryRun \in BOOLEAN
    /\ profileOutput = << "json" >>
    /\ configFile \in LoginConfigFiles
    /\ cacheDir \in LoginCacheDirs
    /\ now = MaxMtime
    /\ directory = << AccountProd >>
    /\ pc = "idle"
    /\ df = IdleDf
    /\ lg = IdleLg
    /\ ret = [op |-> "none"]
    /\ hist = Hist0(cacheDir, configFile)

Globals ==
    [startURL |-> ssoStartURL, region |-> ssoRegion, roleNames |-> ssoRoleNames,
     prefix |-> profilePrefix, auto |-> useAutoPrefix, output |-> profileOutput,
     dry |-> dryRun]

\* main.go 952 / 984: main calls login().
LoginCall ==
    /\ mode \in { "login", "runs" }
    /\ pc = "idle"
    /\ pc' = "lookup"
    /\ lg' = IdleLg
    /\ hist' = [Hist0(cacheDir, configFile) EXCEPT
                  !.calls = hist.calls + 1, !.name0 = ssoSessionConfigName]
    /\ UNCHANGED << flagVars, ssoSessionConfigName, configFile, cacheDir, now,
                    directory, mode, df, ret >>

\* return err from login().
LoginReturns(err) ==
    /\ pc' = "done"
    /\ ret' = [op |-> "login", err |-> err, sessionOut |-> << >>, out |-> << >>]

\* main.go 784-785, 823-829: the first fetch of the cached credential.
LgLookup ==
    /\ pc = "lookup"
    /\ \E readFail \in BOOLEAN :
         LET r == getAccessTokenFunc(cacheDir, ssoStartURL, readFail)
         IN /\ lg' = [lg EXCEPT !.err = r.err, !.accessToken = r.token,
                                !.tokenPath = r.path]
            /\ pc' = IF r.err = Nil THEN "validate" ELSE "prelogin"
    /\ hist' = [hist EXCEPT !.events = Append(@, "lookup")]
    /\ UNCHANGED << flagVars, ssoSessionConfigName, configFile, cacheDir, now,
                    directory, mode, df, ret >>

\* The tail of login() as one step: resolveAndSync, and the return.
LoginFinish(withEnsure, valid) ==
    LET roles == getCombinedListOfSsoAccountsAndRoles(directory, ssoRoleNames)
    IN \E ensureFail \in EnsureFailures, listFail \in ListFailures,
          fails \in [1..Len(roles) -> WriteFailures] :
         \E r \in { resolveAndSync(configFile, ssoSessionConfigName, directory,
                                   Globals, withEnsure, ensureFail, listFail,
                                   fails) } :
            /\ configFile' = r.file
            /\ ssoSessionConfigName' = r.name
            /\ pc' = "done"
            /\ ret' = [op |-> "login", err |-> r.err,
                       sessionOut |-> r.sessionOut, out |-> r.out]
            /\ hist' = [hist EXCEPT !.events = @ \o r.events,
                                    !.validated = valid,
                                    !.failedWrites = @ + r.failed]

\* main.go 792-822: validation of the cached credential, and the fast path
\* when it is valid.
LgValidate ==
    /\ pc = "validate"
    /\ \E valid \in BOOLEAN :
         IF valid
         THEN LoginFinish(FALSE, TRUE)
         ELSE /\ pc' = "prelogin"
              /\ UNCHANGED << ssoSessionConfigName, configFile, ret, hist >>
    /\ UNCHANGED << flagVars, cacheDir, now, directory, mode, df, lg >>

\* main.go 831-857: the dry-run notice, configureSsoSessionConfig in real
\* mode, and the call of runAwsSsoLogin.
LgPreLogin ==
    /\ pc = "prelogin"
    /\ IF dryRun
       THEN /\ df' = NewDf
            /\ pc' = "flow"
            /\ hist' = [hist EXCEPT !.events = Append(@, "flow")]
            /\ UNCHANGED << ssoSessionConfigName, configFile, ret >>
       ELSE \E fail \in EnsureFailures :
              \E e \in { ensureSsoSessionConfigPresent(configFile,
                             ssoSessionConfigName, ssoStartURL, ssoRegion,
                             FALSE, fail) } :
                 /\ configFile' = e.file
                 /\ ssoSessionConfigName' = e.name
                 /\ IF e.err # Nil
                    THEN /\ LoginReturns(e.err)
                         /\ hist' = [hist EXCEPT
                                       !.events = @ \o << "ensure", "ensureFailed" >>]
                         /\ UNCHANGED df
                    ELSE /\ df' = NewDf
                         /\ pc' = "flow"
                         /\ hist' = [hist EXCEPT
                                       !.events = @ \o << "ensure", "flow" >>]
                         /\ UNCHANGED ret
    /\ UNCHANGED << flagVars, cacheDir, now, directory, mode, lg >>

\* The observations of a flow are dropped when login() takes over again;
\* what login()'s properties need of them is kept as events.
FlowObserved(h, err) ==
    [Hist0(h.cache0, h.config0) EXCEPT
       !.calls = h.calls,
       !.name0 = h.name0,
       !.events = h.events
                  \o (IF h.retried > 0 THEN << "pending" >> ELSE << >>)
                  \o (IF err = Nil THEN << "flowOk" >> ELSE << "flowFailed" >>)]

\* main.go 855-861: runAwsSsoLogin has returned.
LgFlowReturned ==
    /\ pc = "flow"
    /\ df.pc = "returned"
    /\ df' = IdleDf
    /\ hist' = FlowObserved(hist, df.err)
    /\ IF df.err # Nil
       THEN /\ LoginReturns(df.err)
            /\ UNCHANGED lg
       ELSE /\ pc' = "revalidate"
            /\ lg' = [lg EXCEPT !.i = 0, !.lastErr = Nil]
            /\ UNCHANGED ret
    /\ UNCHANGED << flagVars, ssoSessionConfigName, configFile, cacheDir, now,
                    directory, mode >>

\* main.go 862-870: one pass of the re-validation loop.
LgRevalidate ==
    /\ pc = "revalidate"
    /\ lg.i < MaxRevalidations
    /\ \E readFail \in BOOLEAN, valid \in BOOLEAN :
         LET r == getAccessTokenFunc(cacheDir, ssoStartURL, readFail)
         IN IF r.err = Nil /\ valid
            THEN /\ lg' = [lg EXCEPT !.err = r.err, !.accessToken = r.token,
                                     !.tokenPath = r.path,
                                     !.lastErr = LastErrOnSuccess(lg.lastErr)]
                 /\ pc' = "afterloop"
                 /\ hist' = [hist EXCEPT !.validated = TRUE]
                 /\ UNCHANGED now
            ELSE /\ lg' = [lg EXCEPT !.err = r.err, !.accessToken = r.token,
                                     !.tokenPath = r.path, !.lastErr = r.err,
                                     !.i = @ + 1]
                 /\ pc' = IF lg.i + 1 < MaxRevalidations THEN "revalidate"
                          ELSE "afterloop"
                 /\ now' = now + RevalidationSleep
                 /\ UNCHANGED hist
    /\ UNCHANGED << flagVars, ssoSessionConfigName, configFile, cacheDir,
                    directory, mode, df, ret >>

\* main.go 871-901: the test of lastErr, then the tail of login().
LgResolve ==
    /\ pc = "afterloop"
    /\ IF lg.lastErr # Nil
       THEN /\ LoginReturns(ErrNoValidToken)
            /\ UNCHANGED << ssoSessionConfigName, configFile, hist >>
       ELSE LoginFinish(TRUE, hist.validated)
    /\ UNCHANGED << flagVars, cacheDir, now, directory, mode, df, lg >>

\* main.go 948-992: what main does with login()'s result; exit is the
\* process exit status.
MainFinish ==
    /\ pc = "done"
    /\ pc' = "exited"
    /\ IF ret.err # Nil
       THEN ret' = [op |-> "main", err |-> ret.err, exit |-> 1]
       ELSE IF ssoRoleNames # << >>
       THEN ret' = [op |-> "main", err |-> ret.err, exit |-> 0]
       ELSE \E readFail \in BOOLEAN, listFail \in { "none", "listAll" } :
              LET r == getAccessTokenFunc(cacheDir, ssoStartURL, readFail)
              IN ret' = [op |-> "main", err |-> ret.err,
                         exit |-> IF r.err # Nil \/ listFail # "none"
                                  THEN 1 ELSE 0]
    /\ UNCHANGED << flagVars, ssoSessionConfigName, configFile, cacheDir, now,
                    directory, mode, df, lg, hist >>

Next ==
    \/ LoginCall
    \/ LgLookup
    \/ LgValidate
    \/ LgPreLogin
    \/ DeviceFlowStep
    \/ LgFlowReturned
    \/ LgRevalidate
    \/ LgResolve
    \/ MainFinish

Spec == Init /\ [][Next]_vars

\* A smaller set of runs for the properties of progress: one start URL, a
\* role filter, and a config file that is absent or holds two sessions for
\* the target.
InitProgress ==
    /\ Init
    /\ ssoStartURL = UrlA
    /\ ssoRoleNames = << RoleAdmin >>
    /\ configFile \in
          { NoFile,
            FileOf(RawSessionBlock(NameCorp, UrlA, Region1)
                   \o RawSessionBlock(NameDev, UrlA, Region1), TRUE) }

\* login() and the device flow are sequential code: whenever the program can
\* take a step, it does.  LgValidate and LgResolve are enabled exactly when
\* control is at "validate" and "afterloop" and always leave it, so weak
\* fairness of them says that control is not there forever.
FairSpecLogin ==
    /\ InitProgress /\ [][Next]_vars
    /\ WF_vars(LgLookup) /\ WF_vars(LgPreLogin) /\ WF_vars(DeviceFlowStep)
    /\ WF_vars(LgFlowReturned) /\ WF_vars(LgRevalidate)
    /\ []<>(pc \notin { "validate", "afterloop" })

-----------------------------------------------------------------------------
(* Properties: login                                                       *)

LoginReturned == pc \in { "done", "exited" }

Happened(ev) == \E i \in DOMAIN hist.events : hist.events[i] = ev

\* C1: dry-run purity: when a dry-run login() has returned, the config file
\* and the files of the token cache directory are what they were when it was
\* called.
C1_DryRunPurity ==
    (LoginReturned /\ dryRun)
    => /\ configFile = hist.config0
       /\ cacheDir.files = hist.cache0.files

\* The part of C1 about the config file alone.
DryRunLeavesConfigFile ==
    (LoginReturned /\ dryRun) => configFile = hist.config0

\* C3: when the device flow has returned successfully and none of the
\* re-validation attempts fetched a credential that passed validation,
\* login() returns an error and has not gone on to session resolution or
\* profile synchronisation.
C3_NoValidCredentialIsFatal ==
    (LoginReturned /\ Happened("flowOk") /\ ~hist.validated)
    => /\ ret.err # Nil
       /\ ~Happened("resolve")
       /\ ~Happened("sync")

\* C6: no silent suppression: when a profile write failed during the run,
\* login() returns an error and the process exits with a non-zero status.
C6_NoSilentSuppression ==
    (hist.failedWrites > 0 /\ LoginReturned)
    => /\ ret.err # Nil
       /\ (pc = "exited" => ret.exit # 0)

-----------------------------------------------------------------------------
(* Properties: DeviceAuthClient                                            *)

FlowReturned == df.pc = "returned"

\* The flow reached the polling loop and every exchange attempt was answered
\* pending or slow-down.
OnlyPendingAnswers ==
    /\ hist.requests >= 2 /\ hist.fatal = Nil
    /\ hist.attempts = hist.retried

C9_ExpiredOutcome ==
    /\ hist.lateAttempts = 0
    /\ (FlowReturned /\ OnlyPendingAnswers)
       => /\ df.err = ErrNoAccessToken
          /\ now >= hist.flowStart + hist.expiresIn * TicksPerSecond
          /\ cacheDir = hist.cache0

\* C9: the polling loop always terminates: no exchange attempt begins once
\* start + expiresIn has passed, a flow whose attempts were all answered
\* pending or slow-down ends with the no-access-token error after the
\* deadline with the cache directory untouched, and (the clock advancing
\* with every sleep) a flow that polls eventually returns.
C9_PollingTerminates ==
    /\ []C9_ExpiredOutcome
    /\ ((df.pc \in {"poll", "sleep"}) ~> FlowReturned)

C9_Witness ==
    /\ FlowReturned /\ OnlyPendingAnswers
    /\ hist.attempts >= 2
    /\ df.err = ErrNoAccessToken
    /\ cacheDir = hist.cache0

\* C10: once the provider has answered a registration, device-code or
\* exchange request with an error that is neither pending nor slow-down, the
\* flow has returned that same error, no further request has been sent, and
\* the cache directory is as it was when the flow began.
C10_FatalErrorsEndTheFlow ==
    hist.fatal # Nil
    => /\ FlowReturned
       /\ df.err = hist.fatal
       /\ hist.requests = hist.requestsAtFatal
       /\ cacheDir = hist.cache0

C10_Witness ==
    /\ hist.fatal = ErrAccessDenied
    /\ hist.attempts >= 2
    /\ FlowReturned /\ df.err = ErrAccessDenied
    /\ cacheDir = hist.cache0 /\ cacheDir.exists

\* CreateToken answered with a token.
TokenObtained == hist.granted > 0

\* Every file the cache directory held when the flow began is still there,
\* as it was.
OldFilesKept == \A f \in Range(hist.cache0.files) : f \in Range(cacheDir.files)

NewFiles == { f \in Range(cacheDir.files) : f \notin Range(hist.cache0.files) }

OldNames == { f.name : f \in Range(hist.cache0.files) }

C12_NoPartialRecordRead ==
    ret.op \in {"reading", "lookup"}
    => /\ \A f \in ret.read : f.body # "partial"
       /\ \A k \in DOMAIN ret.cands :
             \E f \in ret.read :
                f.body = "record" /\ Candidate(f) = ret.cands[k]

\* The lookup listed the directory while the temporary file was in it, and
\* ended with the record the writer has renamed into place since.
C12_Witness ==
    /\ ret.op = "lookup" /\ ret.err = Nil
    /\ \E k \in DOMAIN ret.listed : ret.listed[k].ext = TmpSuffix
    /\ FlowReturned /\ df.err = Nil
    /\ Len(ret.cands) >= 1

\* A section header with exactly this session name is a line of the file.
HasSessionHeader(file, name) ==
    \E i \in DOMAIN file.lines :
        file.lines[i].k = "hdr" /\ file.lines[i].a = SessionSectionName(name)

\* The call before this one was the first, in real mode, and created the
\* block for the name this call asks for.
AfterCreation ==
    /\ Len(hist.runs) = 2 /\ ~dryRun
    /\ hist.runs[1].created /\ hist.runs[1].err = Nil
    /\ hist.runs[1].name = ret.nameBefore

NoReuseCandidate ==
    \/ ~IsDefaultName(ret.nameBefore)
    \/ LoadErr(ret.fileBefore)
    \/ EnsureMatchesBefore = { }

\* C14: in dry-run, when the file (read without error) has no session of the
\* requested name and no reuse candidate is found, ensure returns
\* created = true with no error and leaves the config file as it was: a
\* file that did not exist still does not.
C14_DryRunReportsCreation ==
    (EnsureReturned /\ dryRun /\ ret.fail # "read"
       /\ ~HasSessionHeader(ret.fileBefore, ret.nameBefore)
       /\ NoReuseCandidate)
    => (ret.created /\ ret.err = Nil /\ configFile = ret.fileBefore)

\* The same, when the header text of the requested name occurs nowhere in
\* the file, not even in a comment.
DryRunReportsCreationWithoutHeaderText ==
    (EnsureReturned /\ dryRun /\ ret.fail # "read"
       /\ \A i \in DOMAIN ret.fileBefore.lines :
             ret.fileBefore.lines[i].a # SessionSectionName(ret.nameBefore)
       /\ NoReuseCandidate)
    => (ret.created /\ ret.err = Nil /\ configFile = ret.fileBefore)

-----------------------------------------------------------------------------
(* Entry point: profileExists and writeProfileToConfig called directly     *)

MaxWrites == 2       \* consecutive writeProfileToConfig calls

\* An account whose display name contains a dot.
AccountDotted ==
    Account(<< "333333333333" >>, << "example", ".", "com" >>, << RoleAdmin >>)

DottedProfile ==
    getProfileNameFromRole(CombinedRole(AccountDotted, RoleAdmin), EmptyString, FALSE)

\* A profile a user wrote by hand.
NameExample == << "example" >>

ProfileNames == { ProdAdminProfile, DottedProfile, NameExample }

WrittenRoles ==
    { CombinedRole(AccountProd, RoleAdmin), CombinedRole(AccountProd, RolePlainAdmin),
      CombinedRole(AccountDotted, RoleAdmin) }

ProfileConfigFiles ==
    SyncConfigFiles \cup
    { FileOf(ProfileBlock(NameExample, NameDev), TRUE),
      FileOf(ProfileBlock(NameExample, NameDev)
             \o LegacyProfileBlock(DottedProfile), TRUE),
      FileOf(ProfileBlock(ProdAdminProfile, NameDev)
             \o ProfileBlock(ProdAdminProfile, NameCorp), TRUE) }

InitProfiles ==
    /\ mode = "profiles"
    /\ ssoRoleNames = << RoleAdmin >>
    /\ profilePrefix = EmptyString
    /\ useAutoPrefix \in BOOLEAN
    /\ ssoStartURL = UrlA
    /\ ssoSessionConfigName = NameCorp
    /\ ssoRegion = Region1
    /\ dryRun \in BOOLEAN
    /\ profileOutput = << "json" >>
    /\ configFile \in ProfileConfigFiles
    /\ cacheDir = NoCacheDir
    /\ now = 0
    /\ directory = << >>
    /\ pc = "idle"
    /\ df = IdleDf
    /\ lg = IdleLg
    /\ ret = [op |-> "none"]
    /\ hist = Hist0(cacheDir, configFile)

\* profileExists(profileName, ssoConfigFile) is called.
ExistsCall ==
    /\ mode = "profiles"
    /\ \E profileName \in ProfileNames :
         ret' = [op |-> "exists", name |-> profileName,
                 result |-> profileExists(profileName, configFile),
                 fileBefore |-> configFile]
    /\ UNCHANGED << flagVars, ssoSessionConfigName, configFile, cacheDir, now,
                    directory, mode, pc, df, lg, hist >>

\* writeProfileToConfig(profileName, role) is called for an entitlement, under
\* the name getProfileNameFromRole gives it; the environment chooses which
\* file operation fails.
WriteCall ==
    /\ mode = "profiles"
    /\ hist.calls < MaxWrites
    /\ \E role \in WrittenRoles, fail \in WriteFailures :
         LET profileName == getProfileNameFromRole(role, profilePrefix, useAutoPrefix)
             cfg == SyncConfig(profilePrefix, useAutoPrefix, ssoSessionConfigName,
                               ssoRegion, profileOutput, dryRun)
         IN \E r \in { writeProfileToConfig(configFile, profileName, role, cfg, fail) } :
              /\ configFile' = r.file
              /\ ret' = [op |-> "write", name |-> profileName, role |-> role,
                         err |-> r.err, fail |-> fail, fileBefore |-> configFile]
              /\ hist' = [hist EXCEPT
                            !.calls = @ + 1,
                            !.runs = Append(@, [name |-> profileName, role |-> role,
                                                err |-> r.err])]
    /\ UNCHANGED << flagVars, ssoSessionConfigName, cacheDir, now, directory,
                    mode, pc, df, lg >>

NextProfiles == ExistsCall \/ WriteCall

SpecProfiles == InitProfiles /\ [][NextProfiles]_vars

-----------------------------------------------------------------------------
(* Properties: profileExists and writeProfileToConfig                      *)

\* The file is one ini.Load reads: it exists and every line is a header, a
\* key or a comment.
Readable(file) ==
    file.exists /\ \A i \in DOMAIN file.lines : file.lines[i].k # "bad"

\* The text of the file has a section of that name with a line setting the
\* key: a header line followed, before any other header, by the key's line.
SectionCarriesKey(file, sectionName, key) ==
    \E i, j \in DOMAIN file.lines :
       /\ i < j
       /\ file.lines[i] = HdrLine(sectionName)
       /\ file.lines[j].k = "kv" /\ file.lines[j].a = key
       /\ \A m \in (i + 1)..(j - 1) : file.lines[m].k # "hdr"

\* C15: profileExists(name) is true exactly when the config file is readable
\* and has a section "profile <name>" carrying the sso_session key.
C15_ExistsIffSectionWithKey ==
    ret.op = "exists" =>
       (ret.result <=>
          (Readable(ret.fileBefore)
           /\ SectionCarriesKey(ret.fileBefore, ProfileSectionName(ret.name),
                                KeySession)))

\* The same for profile names without a dot.
ExistsIffSectionWithKeyUndotted ==
    (ret.op = "exists" /\ ~HasParent(ret.name)) =>
       (ret.result <=>
          (Readable(ret.fileBefore)
           /\ SectionCarriesKey(ret.fileBefore, ProfileSectionName(ret.name),
                                KeySession)))

\* Every writeProfileToConfig call so far was a real write that returned nil.
AllWritesSucceeded ==
    /\ ~dryRun
    /\ hist.runs # << >>
    /\ \A k \in DOMAIN hist.runs : hist.runs[k].err = Nil

WrittenNames == { hist.runs[k].name : k \in DOMAIN hist.runs }

\* The entitlement of the latest write under that profile name.
LatestWrite(name) ==
    LET k == CHOOSE k \in DOMAIN hist.runs :
                 /\ hist.runs[k].name = name
                 /\ \A m \in DOMAIN hist.runs : hist.runs[m].name = name => m <= k
    IN hist.runs[k].role

\* The text of the file has a section of that name with a line key = val.
SectionSets(file, sectionName, key, val) ==
    \E i, j \in DOMAIN file.lines :
       /\ i < j
       /\ file.lines[i] = HdrLine(sectionName)
       /\ file.lines[j] = KvLine(key, val)
       /\ \A m \in (i + 1)..(j - 1) : file.lines[m].k # "hdr"

HeaderCount(file, sectionName) ==
    Cardinality({ i \in DOMAIN file.lines : file.lines[i] = HdrLine(sectionName) })

\* The file holds exactly one section for the profile, with the five keys
\* of the entitlement and the current configuration.
ProfileWritten(file, name, role) ==
    LET sec == ProfileSectionName(name) IN
    /\ HeaderCount(file, sec) = 1
    /\ SectionSets(file, sec, KeySession, ssoSessionConfigName)
    /\ SectionSets(file, sec, KeyAccountId, role.AccountId)
    /\ SectionSets(file, sec, KeyRoleName, role.RoleName)
    /\ SectionSets(file, sec, KeyProfileRegion, ssoRegion)
    /\ SectionSets(file, sec, KeyOutput, profileOutput)

\* C16: after any sequence of successful non-dry-run writeProfileToConfig
\* calls, the config file has exactly one section per written profile name,
\* with all five keys set: the current session name, the account id and
\* role name of the latest write under that name, the configured region and
\* the configured output format.
C16_OneSectionPerWrittenProfile ==
    (mode = "profiles" /\ AllWritesSucceeded) =>
       \A name \in WrittenNames :
          ProfileWritten(configFile, name, LatestWrite(name))

\* The same for profile names without a dot.
OneSectionPerUndottedProfile ==
    (mode = "profiles" /\ AllWritesSucceeded) =>
       \A name \in WrittenNames :
          ~HasParent(name) => ProfileWritten(configFile, name, LatestWrite(name))

-----------------------------------------------------------------------------
(* Entry point: the naming functions called directly                       *)

MaxWords == 3        \* pieces of text in a role name or an account name

RoleWords == { "AWS", "Access", "ReadOnly" }
RoleNameInputs == SeqsUpTo(RoleWords, MaxWords)

NameChars == { "My", " ", "_" }
AccountNameInputs == SeqsUpTo(NameChars, MaxWords)

InitNaming ==
    /\ mode = "naming"
    /\ ssoRoleNames = << >>
    /\ profilePrefix \in { EmptyString, CustomPrefix }
    /\ useAutoPrefix \in BOOLEAN
    /\ ssoStartURL = UrlA
    /\ ssoSessionConfigName = NameCorp
    /\ ssoRegion = Region1
    /\ dryRun = FALSE
    /\ profileOutput = << "json" >>
    /\ configFile = NoFile
    /\ cacheDir = NoCacheDir
    /\ now = 0
    /\ directory = << >>
    /\ pc = "idle"
    /\ df = IdleDf
    /\ lg = IdleLg
    /\ ret = [op |-> "none"]
    /\ hist = Hist0(cacheDir, configFile)

\* generatePrefixFromRole(roleName) is called.
PrefixCall ==
    /\ mode = "naming"
    /\ ret.op = "none"          \* one call per behaviour
    /\ \E roleName \in RoleNameInputs :
         ret' = [op |-> "prefix", roleName |-> roleName,
                 result |-> generatePrefixFromRole(roleName)]
    /\ UNCHANGED << flagVars, ssoSessionConfigName, configFile, cacheDir, now,
                    directory, mode, pc, df, lg, hist >>

\* getProfileNameFromRole(role) is called.
NameCall ==
    /\ mode = "naming"
    /\ ret.op = "none"          \* one call per behaviour
    /\ \E roleName \in RoleNameInputs, accountName \in AccountNameInputs :
         LET role == [AccountId |-> AccountDev.AccountId, RoleName |-> roleName,
                      AccountName |-> accountName]
         IN ret' = [op |-> "name", role |-> role,
                    result |-> getProfileNameFromRole(role, profilePrefix,
                                                      useAutoPrefix)]
    /\ UNCHANGED << flagVars, ssoSessionConfigName, configFile, cacheDir, now,
                    directory, mode, pc, df, lg, hist >>

NextNaming == PrefixCall \/ NameCall

SpecNaming == InitNaming /\ [][NextNaming]_vars

-----------------------------------------------------------------------------
(* Properties: profile naming                                              *)

\* The role name without one leading "AWS", then without one trailing
\* "Access"; followed by "_" when anything remains.
StrippedRole(roleName) ==
    LET a == IF Len(roleName) >= 1 /\ roleName[1] = "AWS"
             THEN Tail(roleName) ELSE roleName
    IN IF Len(a) >= 1 /\ a[Len(a)] = "Access" THEN SubSeq(a, 1, Len(a) - 1) ELSE a

ExpectedPrefix(roleName) ==
    IF StrippedRole(roleName) # << >>
    THEN StrippedRole(roleName) \o << "_" >>
    ELSE << >>

\* C17: generatePrefixFromRole(role) is the role name with one leading "AWS"
\* and then one trailing "Access" stripped, followed by "_" when the
\* remainder is non-empty, and the empty string otherwise.
C17_PrefixFromRole ==
    ret.op = "prefix" => ret.result = ExpectedPrefix(ret.roleName)

C17_Witness ==
    /\ ret.op = "prefix"
    /\ ret.roleName = << "AWS", "ReadOnly", "Access" >>
    /\ ret.result = << "ReadOnly", "_" >>

\* The account name with each maximal run of whitespace or underscores
\* replaced by one hyphen: the first character of a run becomes the hyphen,
\* the rest of the run is dropped.
SanitisedName(name) ==
    LET IsSep(i) == name[i] \in { "_", " ", "\t" }
        kept == SelectSeq([i \in 1..Len(name) |-> i],
                          LAMBDA i : ~IsSep(i) \/ i = 1 \/ ~IsSep(i - 1))
    IN [k \in 1..Len(kept) |-> IF IsSep(kept[k]) THEN "-" ELSE name[kept[k]]]

ChosenPrefix(role) ==
    IF profilePrefix # << >> THEN profilePrefix
    ELSE IF useAutoPrefix THEN ExpectedPrefix(role.RoleName)
    ELSE << >>

\* C18: getProfileNameFromRole gives prefix + sanitisedName + "_" + accountId,
\* where the prefix is the explicit prefix when non-empty, else the
\* role-derived prefix when auto-prefix is on, else empty (and then the name
\* is sanitisedName + "_" + accountId), and the sanitised name is the account
\* name with each maximal run of whitespace or underscores replaced by a
\* single hyphen.
C18_ProfileNameAlgorithm ==
    ret.op = "name" =>
       ret.result = ChosenPrefix(ret.role) \o SanitisedName(ret.role.AccountName)
                      \o << "_" >> \o ret.role.AccountId

\* An account name with a run of two separators, named with the
\* role-derived prefix.
C18_Witness ==
    /\ ret.op = "name"
    /\ profilePrefix = << >> /\ useAutoPrefix
    /\ ret.role.RoleName = << "AWS", "ReadOnly", "Access" >>
    /\ ret.role.AccountName = << "My", " ", "_" >>
    /\ ret.result = << "ReadOnly", "_", "My", "-", "_" >> \o ret.role.AccountId

-----------------------------------------------------------------------------
(* Properties: login, cold start                                           *)

\* The cache held no record for the issuer when login() was called.
ColdStart ==
    \A f \in Range(hist.cache0.files) :
       TrimRight(f.startUrl, Slash) # TrimRight(ssoStartURL, Slash)

\* The cache holds a complete record for the issuer.
CredentialPresent ==
    \E f \in Range(cacheDir.files) :
       /\ f.ext = "json" /\ f.body = "record"
       /\ TrimRight(f.startUrl, Slash) = TrimRight(ssoStartURL, Slash)

\* The device flow succeeded and a re-validation attempt fetched a
\* credential that passed validation.
FlowSucceededAndValidated ==
    LoginReturned /\ ColdStart /\ Happened("flowOk") /\ hist.validated

ColdStartSafe ==
    (FlowSucceededAndValidated /\ ~Happened("ambiguous")
       /\ ~Happened("ensureFailed") /\ ~Happened("syncFailed"))
    => (ret.err = Nil /\ CredentialPresent)

-----------------------------------------------------------------------------
(* Properties: login, ordering                                             *)

\* Every start of the device flow comes after a session ensure step of the
\* same run, and none comes after an ensure step that returned an error.
EnsurePrecedesFlow ==
    \A j \in DOMAIN hist.events :
       hist.events[j] = "flow" =>
          /\ \E i \in 1..(j - 1) : hist.events[i] = "ensure"
          /\ \A i \in 1..(j - 1) : hist.events[i] # "ensureFailed"

\* C20: in every run of login() in which the cached credential is missing or
\* fails validation, the session ensure step is performed before the device
\* flow is started, and the flow is not started when that step returned an
\* error.
C20_EnsureBeforeFlow ==
    mode = "login" => EnsurePrecedesFlow

\* The same for the runs that are not dry runs.
EnsureBeforeFlowInRealRuns ==
    (mode = "login" /\ ~dryRun) => EnsurePrecedesFlow

-----------------------------------------------------------------------------
(* Properties: login, role filter and ambiguity                            *)

\* The header lines of the profile sections of a file, in order.
ProfileHeaders(file) ==
    SelectSeq(file.lines,
              LAMBDA l : l.k = "hdr" /\ HasPrefix(l.a, ProfilePrefixWord))

\* The lines of a file that belong to profile sections, in order.
RECURSIVE ProfileText(_, _, _)
ProfileText(lines, i, inProfile) ==
    IF i > Len(lines) THEN << >>
    ELSE LET l == lines[i]
             inP == IF l.k = "hdr" THEN HasPrefix(l.a, ProfilePrefixWord)
                    ELSE inProfile
         IN (IF inP THEN << l >> ELSE << >>) \o ProfileText(lines, i + 1, inP)

\* C21: when no role filter was requested, login() never invokes profile
\* synchronisation and leaves the profile sections of the config file as
\* they were, on the valid-cached-credential path and on the device-flow
\* path.
C21_NoRolesNoSync ==
    (mode = "login" /\ ssoRoleNames = << >>)
    => /\ ~Happened("sync")
       /\ ProfileText(configFile.lines, 1, FALSE)
            = ProfileText(hist.config0.lines, 1, FALSE)

\* login() returned without error on the device-flow path, with no role
\* filter, against a config file that holds a profile.
C21_Witness ==
    /\ LoginReturned /\ ssoRoleNames = << >> /\ ret.err = Nil
    /\ Happened("flowOk") /\ Happened("resolve")
    /\ ProfileHeaders(hist.config0) # << >>

\* The same on the valid-cached-credential path.
NoRolesFastPathReached ==
    /\ LoginReturned /\ ssoRoleNames = << >> /\ ret.err = Nil
    /\ ~Happened("flow") /\ Happened("resolve")

\* The run uses the default session name against a config file that loads
\* and held, when login() was called, more than one sso-session section
\* matching the target.
AmbiguousRun ==
    /\ mode = "login"
    /\ IsDefaultName(ssoSessionConfigName)
    /\ ~LoadErr(hist.config0)
    /\ Cardinality(MatchingSessions(hist.config0, ssoStartURL, ssoRegion)) > 1

\* In an ambiguous run no step rebinds the session name or changes the
\* profile sections of the config file.
AmbiguityKeepsNameAndProfiles ==
    AmbiguousRun =>
       /\ ssoSessionConfigName' = ssoSessionConfigName
       /\ ProfileText(configFile'.lines, 1, FALSE)
            = ProfileText(configFile.lines, 1, FALSE)

AmbiguityIsAnError ==
    (AmbiguousRun /\ LoginReturned) => ret.err # Nil

\* C22: in every run with the default session name against a readable
\* config file holding more than one sso-session section that matches the
\* target, login() returns an error, the session name is never rebound, and
\* no profile section is written.
C22_AmbiguityNeverResolved ==
    /\ [][AmbiguityKeepsNameAndProfiles]_vars
    /\ []AmbiguityIsAnError

\* login() found the ambiguity itself, with a valid cached credential.
C22_Witness ==
    /\ AmbiguousRun /\ LoginReturned
    /\ ssoRoleNames # << >>
    /\ ~Happened("flow") /\ Happened("ambiguous")
    /\ HasPrefix(ret.err, ErrAmbiguous)

-----------------------------------------------------------------------------
(* Properties: login, the dry-run session block                            *)

\* The config file login() was called with declares no session for the run:
\* no section of the session name, and for the default name no section
\* matching the target either.
SessionUndeclared ==
    /\ ~HasSessionHeader(hist.config0, ssoSessionConfigName)
    /\ IsDefaultName(ssoSessionConfigName) =>
          \/ LoadErr(hist.config0)
          \/ MatchingSessions(hist.config0, ssoStartURL, ssoRegion) = { }

\* How often the run printed the "Would add SSO session configuration"
\* block.  The ensure step before the flow prints nothing (it is skipped in
\* a dry run and writes in a real one), so these are the blocks of the step
\* after the flow.
WouldAddCount ==
    Cardinality({ i \in DOMAIN ret.sessionOut :
                    ret.sessionOut[i] = "WouldAddSession" })

\* C23: a dry-run login() with no cached credential and an undeclared
\* session, whose device flow succeeded, whose new credential passed
\* validation and whose ensure step met no I/O failure, has printed the
\* "Would add SSO session configuration" block exactly once.
C23_WouldAddOnce ==
    (mode = "login" /\ pc = "done" /\ dryRun /\ ColdStart /\ SessionUndeclared
       /\ Happened("flowOk") /\ hist.validated /\ ~Happened("ensureFailed"))
    => WouldAddCount = 1

\* The same when the header text of the session name occurs nowhere in the
\* file, not even in a comment.
WouldAddOnceWithoutHeaderText ==
    (mode = "login" /\ pc = "done" /\ dryRun /\ ColdStart /\ SessionUndeclared
       /\ Happened("flowOk") /\ hist.validated /\ ~Happened("ensureFailed")
       /\ \A i \in DOMAIN hist.config0.lines :
             hist.config0.lines[i].a # SessionSectionName(ssoSessionConfigName))
    => WouldAddCount = 1

-----------------------------------------------------------------------------
(* Entry point: the program run several times on one config file           *)

\* Config files with at most one sso-session section for the target.
RunsConfigFiles ==
    { NoFile,
      FileOf(RawSessionBlock(NameCorp, UrlA \o << Slash >>, Region1), FALSE),
      FileOf(RawSessionBlock(defaultSSOSessionConfigName, UrlB, Region1), TRUE),
      FileOf(RawSessionBlock(NameCorp, UrlA, Region1) \o << BadLine >>, TRUE) }

InitRuns ==
    /\ mode = "runs"
    /\ ssoRoleNames \in { << >>, << RoleAdmin >> }
    /\ profilePrefix = EmptyString
    /\ useAutoPrefix = TRUE
    /\ ssoStartURL \in StartUrls
    /\ ssoSessionConfigName = defaultSSOSessionConfigName
    /\ ssoRegion = Region1
    /\ dryRun \in BOOLEAN
    /\ profileOutput = << "json" >>
    /\ configFile \in RunsConfigFiles
    /\ cacheDir \in LoginCacheDirs
    /\ now = MaxMtime
    /\ directory = << AccountProd >>
    /\ pc = "idle"
    /\ df = IdleDf
    /\ lg = IdleLg
    /\ ret = [op |-> "none"]
    /\ hist = Hist0(cacheDir, configFile)

\* The process has exited and the program is run again, with the default
\* session name and the same start URL up to trailing slashes.  The new
\* process finds the config file the last one left; the token cache and the
\* clock reading are again any that a first run may find.  The dry-run flag
\* is that of the first run: a dry run leaves the file as it found it, so a
\* sequence that mixes dry and real runs adds no file contents.
Rerun ==
    /\ mode = "runs"
    /\ pc = "exited"
    /\ hist.calls < MaxCalls
    /\ pc' = "idle"
    /\ ssoSessionConfigName' = defaultSSOSessionConfigName
    /\ ssoStartURL' \in StartUrls
    /\ cacheDir' \in LoginCacheDirs
    /\ now' = MaxMtime
    /\ df' = IdleDf
    /\ lg' = IdleLg
    /\ ret' = [op |-> "none"]
    /\ hist' = [Hist0(cacheDir', configFile) EXCEPT !.calls = hist.calls]
    /\ UNCHANGED << ssoRoleNames, profilePrefix, useAutoPrefix, ssoRegion,
                    dryRun, profileOutput, configFile, directory, mode >>

NextRuns == Next \/ Rerun

SpecRuns == InitRuns /\ [][NextRuns]_vars

-----------------------------------------------------------------------------
(* Properties: sessions across runs                                        *)

\* The header lines of the sso-session sections of the file's text that
\* declare the target: start URL equal up to trailing slashes, same region.
MatchingSessionHeaders(file, startURL, region) ==
    { i \in DOMAIN file.lines :
        /\ file.lines[i].k = "hdr"
        /\ HasPrefix(file.lines[i].a, SsoSessionPrefix)
        /\ \E val \in { file.lines[j].b : j \in DOMAIN file.lines } :
              /\ TrimRight(val, Slash) = TrimRight(startURL, Slash)
              /\ SectionSets(file, file.lines[i].a, KeyStartUrl, val)
        /\ SectionSets(file, file.lines[i].a, KeyRegion, region) }

\* C24: starting from a config file with at most one sso-session section
\* matching the target, after any sequence of login() runs with the default
\* session name for that start URL and region the file still has at most
\* one sso-session section matching it.  Stated for the runs that return no
\* error.
C24_NoDuplicateSessions ==
    (mode = "runs" /\ LoginReturned /\ ret.err = Nil) =>
       Cardinality(MatchingSessionHeaders(configFile, ssoStartURL, ssoRegion)) <= 1

\* The same for the files the parser accepts.
NoDuplicateSessionsInLoadableFiles ==
    (mode = "runs" /\ LoginReturned /\ ~LoadErr(configFile)) =>
       Cardinality(MatchingSessionHeaders(configFile, ssoStartURL, ssoRegion)) <= 1

\* A second run has returned without error on a file in which the first run
\* created the session (no initial file declares the default session for
\* the target).
SessionCreatedThenKept ==
    /\ mode = "runs" /\ LoginReturned /\ ret.err = Nil /\ ~dryRun
    /\ hist.calls = 2
    /\ SectionSets(hist.config0, SessionSectionName(defaultSSOSessionConfigName),
                   KeyStartUrl, UrlA)
    /\ Cardinality(MatchingSessionHeaders(hist.config0, ssoStartURL, ssoRegion)) = 1
    /\ Happened("ensure")
    /\ Cardinality(MatchingSessionHeaders(configFile, ssoStartURL, ssoRegion)) = 1

-----------------------------------------------------------------------------
(* Properties: login, the session a profile refers to                      *)

\* The names of the profile sections of the file's text.
ProfileSections(file) ==
    { file.lines[i].a : i \in { j \in DOMAIN file.lines :
                                   /\ file.lines[j].k = "hdr"
                                   /\ HasPrefix(file.lines[j].a, ProfilePrefixWord) } }

\* The profile sections the run added to the file it was called with.
WrittenProfileSections == ProfileSections(configFile) \ ProfileSections(hist.config0)

\* The section sets sso_session, and every value it sets it to is the name
\* of an sso-session section of the same file.
RefersToDeclaredSession(file, sec) ==
    LET vals == { file.lines[j].b : j \in DOMAIN file.lines } IN
    /\ \E v \in vals : SectionSets(file, sec, KeySession, v)
    /\ \A v \in vals : SectionSets(file, sec, KeySession, v)
                          => HasSessionHeader(file, v)

\* C25: after a login() run that returns without error in non-dry-run mode,
\* every profile section written by the run has an sso_session value that
\* names an sso-session section of the same config file.
C25_ProfilesReferToDeclaredSession ==
    (mode = "login" /\ LoginReturned /\ ret.err = Nil /\ ~dryRun)
    => \A sec \in WrittenProfileSections : RefersToDeclaredSession(configFile, sec)

\* The file login() was called with is one the parser accepts and quotes no
\* section header in a comment.
PlainConfig ==
    /\ ~LoadErr(hist.config0)
    /\ \A i \in DOMAIN hist.config0.lines : hist.config0.lines[i].k # "cmt"

\* The same for the runs that went through the device flow on such a file.
ProfilesReferToDeclaredSessionAfterFlow ==
    (mode = "login" /\ LoginReturned /\ ret.err = Nil /\ ~dryRun
       /\ Happened("flow") /\ PlainConfig)
    => \A sec \in WrittenProfileSections : RefersToDeclaredSession(configFile, sec)

\* Such a run has written a profile.
ProfileWrittenAfterFlow ==
    /\ mode = "login" /\ LoginReturned /\ ret.err = Nil /\ ~dryRun
    /\ Happened("flow") /\ PlainConfig
    /\ WrittenProfileSections # { }

-----------------------------------------------------------------------------
(* Properties: SessionReconciler, what a successful ensure leaves          *)

\* The text of the file has an sso-session section of that name which sets
\* the target: start URL equal up to trailing slashes, same region.
DeclaresTarget(file, name, startURL, region) ==
    /\ \E val \in { file.lines[j].b : j \in DOMAIN file.lines } :
          /\ TrimRight(val, Slash) = TrimRight(startURL, Slash)
          /\ SectionSets(file, SessionSectionName(name), KeyStartUrl, val)
    /\ SectionSets(file, SessionSectionName(name), KeyRegion, region)

\* C26: whenever a non-dry-run ensureSsoSessionConfigPresent returns without
\* error, the config file has an sso-session section named by the resulting
\* session name whose start URL, trailing slashes stripped, and region are
\* those of the target.  Stated for the calls that meet no I/O failure.
C26_EnsurePostcondition ==
    (EnsureReturned /\ ~dryRun /\ ret.err = Nil /\ ret.fail = "none")
    => DeclaresTarget(configFile, ssoSessionConfigName, ssoStartURL, ssoRegion)

\* The same for the calls made when the header text of the requested name
\* is nowhere in the file.
EnsurePostconditionWithoutHeaderText ==
    (EnsureReturned /\ ~dryRun /\ ret.err = Nil
       /\ ~ContainsHeader(ret.fileBefore, ret.nameBefore))
    => DeclaresTarget(configFile, ssoSessionConfigName, ssoStartURL, ssoRegion)

\* Such a call has created the block, and another has reused a session of
\* another name.
EnsureCreatedOrReused ==
    /\ EnsureReturned /\ ~dryRun /\ ret.err = Nil
    /\ ~ContainsHeader(ret.fileBefore, ret.nameBefore)
    /\ (ret.created \/ ssoSessionConfigName # ret.nameBefore)

-----------------------------------------------------------------------------
(* Properties: ProfileSynchronizer, coverage of the entitlements           *)

\* The profile name of an entitlement of the call.
EntitlementName(role) == getProfileNameFromRole(role, profilePrefix, useAutoPrefix)

\* The text of the file has a profile section for the entitlement under its
\* computed name.
Covered(file, role) ==
    LET sec == ProfileSectionName(EntitlementName(role)) IN
    /\ SectionSets(file, sec, KeyAccountId, role.AccountId)
    /\ SectionSets(file, sec, KeyRoleName, role.RoleName)

\* C27: after a non-dry-run configureSsoProfiles in which no write fails,
\* every entitlement of the input has a profile section under its computed
\* name with its account id and role name, also when two entitlements of
\* one account with different roles are requested.  Stated for the calls on
\* a file that held no profile section.
C27_EveryEntitlementCovered ==
    (SyncReturned /\ ~dryRun /\ ret.err = Nil /\ ret.failed = 0
       /\ ProfileSections(ret.fileBefore) = { })
    => \A i \in DOMAIN Entitlements : Covered(configFile, Entitlements[i])

\* No two entitlements of the call have the same computed name.
DistinctNames ==
    \A i, j \in DOMAIN Entitlements :
       EntitlementName(Entitlements[i]) = EntitlementName(Entitlements[j]) => i = j

\* The same when the computed names differ from one another.
EveryEntitlementCoveredUnderDistinctNames ==
    (SyncReturned /\ ~dryRun /\ ret.err = Nil /\ ret.failed = 0
       /\ ProfileSections(ret.fileBefore) = { } /\ DistinctNames)
    => \A i \in DOMAIN Entitlements : Covered(configFile, Entitlements[i])

\* Such a call has written two profiles.
TwoEntitlementsCovered ==
    /\ SyncReturned /\ ~dryRun /\ ret.err = Nil /\ ret.failed = 0
    /\ ProfileSections(ret.fileBefore) = { } /\ DistinctNames
    /\ ret.added = 2

-----------------------------------------------------------------------------
(* Properties: ProfileSynchronizer, the counts of a dry run                *)

\* What a call in real mode reports on the same file and entitlement list
\* when no listing and no write fails.
RealCallOutcome ==
    configureSsoProfiles(ret.fileBefore, directory, ssoRoleNames,
                         SyncConfig(profilePrefix, useAutoPrefix,
                                    ssoSessionConfigName, ssoRegion,
                                    profileOutput, FALSE),
                         "none", [i \in DOMAIN Entitlements |-> "none"])

\* C28: the added and skipped counts a dry-run configureSsoProfiles reports
\* are those a call in real mode reports on the same config file and
\* entitlement list when no write fails.
C28_DryRunCounts ==
    (SyncReturned /\ dryRun /\ ret.err = Nil)
    => /\ ret.added = RealCallOutcome.added
       /\ ret.skipped = RealCallOutcome.skipped

\* The same when the computed names of the entitlements differ from one
\* another.
DryRunCountsUnderDistinctNames ==
    (SyncReturned /\ dryRun /\ ret.err = Nil /\ DistinctNames)
    => /\ ret.added = RealCallOutcome.added
       /\ ret.skipped = RealCallOutcome.skipped

\* Such a dry run has reported an entitlement to add and one to skip.
DryRunAddsAndSkips ==
    /\ SyncReturned /\ dryRun /\ ret.err = Nil /\ DistinctNames
    /\ ret.added >= 1 /\ ret.skipped >= 1

-----------------------------------------------------------------------------
(* Properties: writeProfileToConfig, what it leaves alone                  *)

WriteReturned == ret.op = "write"

\* The section names of the file's text.
TextSections(file) ==
    { file.lines[i].a : i \in { j \in DOMAIN file.lines : file.lines[j].k = "hdr" } }

\* The keys and values of a section of the file's text.
TextKeys(file, sectionName) ==
    { kv \in { << file.lines[j].a, file.lines[j].b >> : j \in DOMAIN file.lines } :
        SectionSets(file, sectionName, kv[1], kv[2]) }

\* The keys of main.go 688-692.
WrittenKeys == { KeySession, KeyAccountId, KeyRoleName, KeyProfileRegion, KeyOutput }

\* Every section of before is a section of after; a section other than the
\* target has the keys and values it had, and the target has those it had
\* under the keys that are not written.
RestPreserved(before, after, target) ==
    /\ TextSections(before) \subseteq TextSections(after)
    /\ \A sec \in TextSections(before) :
          IF sec = target
          THEN { kv \in TextKeys(before, sec) : kv[1] \notin WrittenKeys }
                 = { kv \in TextKeys(after, sec) : kv[1] \notin WrittenKeys }
          ELSE TextKeys(before, sec) = TextKeys(after, sec)

\* C29: after a non-dry-run writeProfileToConfig that returns without error,
\* every section the config file had before the call still exists with the
\* same keys and values, and in the target profile section every key other
\* than the five written ones is unchanged.  Stated for profile names
\* without a dot and files in which no two sections have one name.
C29_WritePreservesRest ==
    (WriteReturned /\ ~dryRun /\ ret.err = Nil /\ ~HasParent(ret.name)
       /\ \A sec \in TextSections(ret.fileBefore) :
             HeaderCount(ret.fileBefore, sec) = 1)
    => RestPreserved(ret.fileBefore, configFile, ProfileSectionName(ret.name))

\* The parser accepts the file, and no two sections of it have one name.
PlainFile(file) ==
    /\ Readable(file)
    /\ \A sec \in TextSections(file) : HeaderCount(file, sec) = 1

\* The same for the calls on such a file, under a profile name without a
\* dot.
WritePreservesRestOfReadableFile ==
    (WriteReturned /\ ~dryRun /\ ret.err = Nil
       /\ PlainFile(ret.fileBefore) /\ ~HasParent(ret.name))
    => RestPreserved(ret.fileBefore, configFile, ProfileSectionName(ret.name))

\* Such a call has added a profile to a file that held a session and
\* another profile.
WriteKeptOtherSections ==
    /\ WriteReturned /\ ~dryRun /\ ret.err = Nil
    /\ PlainFile(ret.fileBefore) /\ ~HasParent(ret.name)
    /\ Cardinality(TextSections(ret.fileBefore)) >= 2
    /\ ProfileSectionName(ret.name) \notin TextSections(ret.fileBefore)

-----------------------------------------------------------------------------
(* Properties: writeProfileToConfig, the file after an error               *)

\* C30: if a non-dry-run writeProfileToConfig returns an error (directory
\* creation, file write or save failure), the config file has the content
\* it had before the call.  Stated for the files that held a section.
C30_UnchangedOnError ==
    (WriteReturned /\ ~dryRun /\ ret.err # Nil
       /\ TextSections(ret.fileBefore) # { })
    => configFile = ret.fileBefore

\* The same for the errors of directory creation and of the file write.
UnchangedOnCreateError ==
    (WriteReturned /\ ~dryRun /\ ret.err # Nil /\ ret.fail = "create")
    => configFile = ret.fileBefore

\* Such an error has been returned on a file that held sections.
CreateErrorOnFileWithSections ==
    /\ WriteReturned /\ ~dryRun /\ ret.err # Nil /\ ret.fail = "create"
    /\ TextSections(ret.fileBefore) # { }

-----------------------------------------------------------------------------
(* Properties: the credential a flow persisted, as the lookup sees it      *)

\* The candidates of a lookup for the target other than the file f.
OtherCandidates(f, target) ==
    { g \in Range(cacheDir.files) : g # f /\ IsCandidate(g, target) }

\* f is a candidate of the lookup for the target, and the entry it returns
\* when every other candidate was modified strictly earlier.
RoundTrip(f, target) ==
    LET r == getAccessTokenFromSsoSessionWithPath(cacheDir, target) IN
    /\ \E k \in DOMAIN r.candidates : r.candidates[k].path = f.name
    /\ (\A g \in OtherCandidates(f, target) : g.mtime < f.mtime)
          => (r.err = Nil /\ r.path = f.name /\ r.token = f.accessToken)

\* C31: a credential persisted by a successful device flow for a start URL
\* is a candidate of the cache lookup for that URL and for every URL that
\* differs from it in trailing slashes only, and it is the entry returned
\* when its modification time is strictly greater than that of every other
\* matching entry.
C31_PersistLookupRoundTrip ==
    (mode = "flow" /\ FlowReturned /\ df.err = Nil)
    => \A f \in NewFiles : \A target \in StartUrls : RoundTrip(f, target)

\* The same with modification times compared in whole seconds.
RoundTripInSeconds(f, target) ==
    LET r == getAccessTokenFromSsoSessionWithPath(cacheDir, target) IN
    /\ \E k \in DOMAIN r.candidates : r.candidates[k].path = f.name
    /\ (\A g \in OtherCandidates(f, target) : Unix(g.mtime) < Unix(f.mtime))
          => (r.err = Nil /\ r.path = f.name /\ r.token = f.accessToken)

PersistLookupRoundTripInSeconds ==
    (mode = "flow" /\ FlowReturned /\ df.err = Nil)
    => \A f \in NewFiles : \A target \in StartUrls : RoundTripInSeconds(f, target)

\* A flow has persisted its credential beside an older matching entry.
PersistedBesideOlderEntry ==
    /\ mode = "flow" /\ FlowReturned /\ df.err = Nil
    /\ \E f \in NewFiles :
          \E g \in OtherCandidates(f, ssoStartURL) : Unix(g.mtime) < Unix(f.mtime)

-----------------------------------------------------------------------------
(* Properties: DeviceAuthClient, the error of an expired flow              *)

\* The flow reached the polling loop and one exchange was answered without
\* error and without an access token.
TokenMissingAnswer ==
    /\ hist.requests >= 2 /\ hist.fatal = Nil
    /\ hist.granted = 0
    /\ hist.attempts = hist.retried + 1

\* An exchange was answered with a non-recoverable error.
FatalExchangeAnswer == hist.fatal \in { ErrExpiredToken, ErrAccessDenied }

\* The errors the flow returns for a non-recoverable exchange failure and
\* for an exchange that carries no access token.
OtherFailureErrors == { ErrExpiredToken, ErrAccessDenied, ErrNoAccessToken }

\* They are the errors of those outcomes.
OtherFailuresReported ==
    /\ (mode = "flow" /\ FlowReturned /\ TokenMissingAnswer) => df.err = ErrNoAccessToken
    /\ (mode = "flow" /\ FlowReturned /\ FatalExchangeAnswer) => df.err = hist.fatal

\* C32: the error returned when the polling deadline passes is none of the
\* errors returned for a non-recoverable exchange failure or for an exchange
\* that succeeds without an access token.
C32_ExpiryDistinct ==
    (mode = "flow" /\ FlowReturned /\ OnlyPendingAnswers)
    => df.err \notin OtherFailureErrors

\* It is none of the errors of a non-recoverable exchange failure.
ExpiryDistinctFromFatal ==
    (mode = "flow" /\ FlowReturned /\ OnlyPendingAnswers)
    => df.err \notin { ErrExpiredToken, ErrAccessDenied }

\* A flow has ended at its deadline after a pending answer, and another on
\* an exchange without an access token.
ExpiredAfterPending ==
    /\ mode = "flow" /\ FlowReturned /\ OnlyPendingAnswers /\ hist.retried >= 1

TokenMissingReturned ==
    /\ mode = "flow" /\ FlowReturned /\ TokenMissingAnswer

-----------------------------------------------------------------------------
(* Properties: SessionReconciler, what the ambiguity error says            *)

\* The text sub occurs in the text s.
Occurs(s, sub) ==
    \E i \in 0..(Len(s) - Len(sub)) : SubSeq(s, i + 1, i + Len(sub)) = sub

AmbiguityReturned == EnsureReturned /\ HasPrefix(ret.err, ErrAmbiguous)

\* C33: the ambiguity error ensureSsoSessionConfigPresent returns when more
\* than one session matches carries the names of all matching sessions.
C33_AmbiguityNamesCandidates ==
    AmbiguityReturned
    => \A i \in EnsureMatchesBefore : Occurs(ret.err, SessionLabel(ret.fileBefore, i))

\* What it carries is the start URL and the region of the target.
AmbiguityNamesTarget ==
    AmbiguityReturned
    => /\ Cardinality(EnsureMatchesBefore) >= 2
       /\ Occurs(ret.err, ssoStartURL) /\ Occurs(ret.err, ssoRegion)

\* The error has been returned for two sessions of different names.
AmbiguityOfTwoNames ==
    /\ AmbiguityReturned
    /\ \E i, j \in EnsureMatchesBefore :
          SessionLabel(ret.fileBefore, i) # SessionLabel(ret.fileBefore, j)

-----------------------------------------------------------------------------
(* Properties: login, the path of a valid cached credential                *)

\* The step login() takes when the cached credential passes validation: from
\* the validation to the return.
FastPathStep == mode = "login" /\ pc = "validate" /\ pc' = "done"

\* How many header lines of sso-session sections the file's text has.
SessionHeaderCount(file) ==
    Cardinality({ i \in DOMAIN file.lines :
                    /\ file.lines[i].k = "hdr"
                    /\ HasPrefix(file.lines[i].a, SsoSessionPrefix) })

\* The sessions reuse detection finds for the run: those matching the
\* target, when the session name is the default and the file loads.
Detected ==
    IF IsDefaultName(ssoSessionConfigName) /\ ~LoadErr(configFile)
    THEN MatchingSessions(configFile, ssoStartURL, ssoRegion)
    ELSE { }

\* The step starts no device flow, adds no session header to the config
\* file, leaves the cache directory alone, and rebinds the session name on
\* exactly one detected session and not otherwise.
FastPathWritesNothingButProfiles ==
    /\ ~Happened("flow")' /\ df' = df
    /\ SessionHeaderCount(configFile') <= SessionHeaderCount(configFile)
    /\ cacheDir' = cacheDir
    /\ ssoSessionConfigName' =
          IF Cardinality(Detected) = 1
          THEN SessionLabel(configFile, CHOOSE i \in Detected : TRUE)
          ELSE ssoSessionConfigName

\* C34 as stated: on the path of a valid cached credential login() starts no
\* device flow, appends no session block, writes no cache file, rebinds the
\* default session name on exactly one match, and calls profile
\* synchronisation if and only if at least one role was requested.
C34_FastPathAsStated ==
    [][FastPathStep =>
         /\ FastPathWritesNothingButProfiles
         /\ Happened("sync")' <=> (ssoRoleNames # << >>)]_vars

\* C34: the same, where profile synchronisation is called if and only if at
\* least one role was requested and reuse detection did not find more than
\* one matching session; when it did, login() returns the ambiguity error
\* and leaves the config file as it was.
C34_FastPath ==
    [][FastPathStep =>
         /\ FastPathWritesNothingButProfiles
         /\ Happened("sync")' <=> (ssoRoleNames # << >> /\ Cardinality(Detected) <= 1)
         /\ Cardinality(Detected) > 1 =>
               (HasPrefix(ret'.err, ErrAmbiguous) /\ configFile' = configFile)]_vars

\* login() has returned on that path after rebinding the session name and
\* calling profile synchronisation.
C34_Witness ==
    /\ mode = "login" /\ LoginReturned /\ ~Happened("flow")
    /\ hist.validated /\ Happened("sync")
    /\ IsDefaultName(defaultSSOSessionConfigName)
    /\ ssoSessionConfigName # defaultSSOSessionConfigName
    /\ ret.err = Nil

-----------------------------------------------------------------------------
(* Properties: login, the reused session name reaches the profiles         *)

\* login() was called with the default session name and a config file in
\* which exactly one sso-session section matches the target.
ReuseCase ==
    /\ mode = "login" /\ pc = "done"
    /\ IsDefaultName(hist.name0)
    /\ ~LoadErr(hist.config0)
    /\ Cardinality(MatchingSessions(hist.config0, ssoStartURL, ssoRegion)) = 1

\* The name of that section.
ReusedSessionName ==
    SessionLabel(hist.config0,
                 CHOOSE i \in MatchingSessions(hist.config0, ssoStartURL, ssoRegion) : TRUE)

\* The profiles the run wrote (real mode) or rendered (dry-run).
ProfilesPutOut == { k \in DOMAIN ret.out : ret.out[k].ev = "add" }

\* C35: when login() reuses an existing session (the default name and exactly
\* one matching section), every profile written or rendered later in the run
\* carries sso_session equal to the reused session's name, whether the reuse
\* was detected before or after the device flow.
C35_ReusedNameThreaded ==
    ReuseCase =>
      /\ \A k \in ProfilesPutOut : ret.out[k].session = ReusedSessionName
      /\ \A sec \in WrittenProfileSections :
            \A v \in { configFile.lines[j].b : j \in DOMAIN configFile.lines } :
               SectionSets(configFile, sec, KeySession, v) <=> v = ReusedSessionName

\* The reuse was detected after the device flow, and a profile carrying a
\* name other than the default was put out.
C35_Witness ==
    /\ ReuseCase /\ Happened("flow") /\ ProfilesPutOut # { }
    /\ ReusedSessionName # defaultSSOSessionConfigName
    /\ ret.out[1].session = ReusedSessionName

\* The same on the path of a valid cached credential, in real mode.
ReusedNameWrittenOnFastPath ==
    /\ ReuseCase /\ ~Happened("flow") /\ ~dryRun
    /\ WrittenProfileSections # { }
    /\ ReusedSessionName # defaultSSOSessionConfigName

-----------------------------------------------------------------------------
(* Properties: DeviceAuthClient, the polling interval                      *)

\* The interval the device-code response asks for, in seconds: its own when
\* it gives one, five seconds when it gives none.
ResponseInterval == IF hist.devInterval > 0 THEN hist.devInterval ELSE 5

InPollingLoop == mode = "flow" /\ df.pc \in { "poll", "sleep" }

\* C36: the polling interval is fixed for the whole polling loop: it is the
\* interval of the device-code response (5 seconds when it gives none), no
\* attempt changes it, whatever its answer (a slow-down included), and every
\* sleep between attempts lasts that interval.
C36_IntervalFixed ==
    [][InPollingLoop =>
         /\ df'.pc \in { "poll", "sleep" } => df'.interval = ResponseInterval
         /\ df.pc = "sleep" => now' = now + ResponseInterval * TicksPerSecond]_vars

\* Two attempts have been retried, one of them after a slow-down, and the
\* sleeps between them had the length the response gave.
C36_Witness ==
    /\ InPollingLoop /\ df.pc = "poll"
    /\ hist.retried >= 2 /\ hist.slowedDown
    /\ hist.devInterval > 0
    /\ hist.intervals = { hist.devInterval }

\* A retried attempt was followed by a sleep of five seconds, the response
\* having given no interval.
SleptDefaultInterval ==
    /\ InPollingLoop /\ df.pc = "poll"
    /\ hist.devInterval = 0 /\ hist.intervals = { 5 }

-----------------------------------------------------------------------------
(* Properties: SessionReconciler, creation appends                         *)

\* A call in real mode has created a session.
SessionCreated == EnsureReturned /\ ~dryRun /\ ret.err = Nil /\ ret.created

\* The block of the call: the header of the session name, the start URL
\* without its trailing slashes, the region and the scope.
CreatedBlock ==
    << HdrLine(SsoSessionPrefix \o ret.nameBefore),
       KvLine(KeyStartUrl, TrimRight(ssoStartURL, Slash)),
       KvLine(KeyRegion, ssoRegion),
       KvLine(KeyScopes, << "sso:account:access" >>) >>

\* C37: session creation is append-only: when a non-dry-run call creates a
\* session, the new content of the file is the old content, every line of it
\* as it was (a newline is put after an unterminated last line), followed by
\* one block with the session name, the start URL with trailing slashes
\* stripped, the region and the scope sso:account:access.
C37_CreationAppends ==
    SessionCreated =>
       /\ configFile = FileOf(ret.fileBefore.lines \o CreatedBlock, TRUE)
       /\ ssoSessionConfigName = ret.nameBefore

\* A session was created in a file whose last line had no newline, for a
\* start URL given with a trailing slash.
C37_Witness ==
    /\ SessionCreated
    /\ ret.fileBefore.lines # << >> /\ ~ret.fileBefore.nl
    /\ ssoStartURL # TrimRight(ssoStartURL, Slash)

\* A session was created in a file that did not exist.
SessionCreatedInNewFile ==
    /\ SessionCreated /\ ~ret.fileBefore.exists
    /\ configFile.lines = CreatedBlock

-----------------------------------------------------------------------------
(* Properties: login, the re-validation loop                               *)

\* Control is at the head of a pass of the loop: the next step fetches the
\* credential.  lg.i counts the fetches made so far, all of which failed.
AtRevalidation == mode = "login" /\ pc = "revalidate"

\* One pass: a fetch whose credential passes validation leaves the loop; any
\* other is counted and leaves it only as the tenth.
RevalidationPass ==
    IF hist'.validated
    THEN pc' = "afterloop" /\ lg'.i = lg.i
    ELSE /\ lg'.i = lg.i + 1
         /\ pc' = IF lg'.i < 10 THEN "revalidate" ELSE "afterloop"

\* C38: the re-validation loop after the login is bounded: it makes at most
\* 10 fetch attempts, stops at the first attempt whose fetched credential
\* passes validation, and always terminates.
C38_RevalidationBounded ==
    /\ [](AtRevalidation => lg.i < 10)
    /\ [][AtRevalidation => RevalidationPass]_vars
    /\ AtRevalidation ~> (pc = "afterloop")

\* The loop was left by its tenth fetch, the first whose credential passed
\* validation.
C38_Witness ==
    /\ mode = "login" /\ pc = "afterloop"
    /\ hist.validated /\ lg.i = 9

\* The loop was left after ten fetches none of which passed validation.
RevalidationExhausted ==
    /\ mode = "login" /\ pc = "afterloop"
    /\ ~hist.validated /\ lg.i = 10

-----------------------------------------------------------------------------
(* Properties: TokenCacheStore, malformed entries                          *)

\* A well-formed entry of the issuer: its stored start URL and the target
\* are equal up to trailing slashes.
EntryOfIssuer(f) ==
    /\ WellFormed(f)
    /\ TrimRight(f.startUrl, Slash) = TrimRight(ssoStartURL, Slash)

\* A .json entry that is unreadable, unparseable, or lacks a string startUrl
\* or accessToken.
MalformedEntry(f) == f.ext = "json" /\ ~WellFormed(f)

\* The lookup returned the token and path of a well-formed entry of the
\* issuer.
ReturnedEntryOfIssuer ==
    /\ ret.err = Nil
    /\ \E f \in Range(cacheDir.files) :
          /\ f.name = ret.path /\ f.accessToken = ret.token
          /\ EntryOfIssuer(f)

\* C39: malformed cache entries are not fatal: when the directory holds at
\* least one well-formed entry matching the issuer, the lookup returns a
\* well-formed entry matching the issuer, whatever malformed entries are
\* beside it; and no malformed entry is ever returned.
C39_MalformedNotFatal ==
    LookupReturned =>
       /\ (\E f \in Range(cacheDir.files) : EntryOfIssuer(f)) => ReturnedEntryOfIssuer
       /\ ret.err = Nil => ~MalformedEntry(EntryNamed(ret.path))

\* A well-formed entry whose stored start URL is the target as given or the
\* target without its trailing slashes.
EntryOfIssuerAsStored(f) ==
    /\ WellFormed(f)
    /\ (f.startUrl = ssoStartURL \/ f.startUrl = TrimRight(ssoStartURL, Slash))

\* The same for the entries whose stored start URL has no trailing slash the
\* target lacks: beside any malformed entries, one of them is returned.
MalformedNotFatalForStoredIssuer ==
    LookupReturned =>
       /\ (\E f \in Range(cacheDir.files) : EntryOfIssuerAsStored(f))
             => ReturnedEntryOfIssuer
       /\ ret.err = Nil => ~MalformedEntry(EntryNamed(ret.path))

\* A malformed entry is listed before the only well-formed entry of the
\* issuer, which the lookup returned.
MalformedEntrySkipped ==
    /\ LookupReturned /\ ret.err = Nil
    /\ Len(cacheDir.files) = 2
    /\ MalformedEntry(cacheDir.files[1])
    /\ ret.path = cacheDir.files[2].name

-----------------------------------------------------------------------------
(* Properties: TokenCacheStore, the order of enumeration                   *)

\* The orders in which the entries of the directory can be enumerated.
Enumerations ==
    { [i \in DOMAIN cacheDir.files |-> cacheDir.files[p[i]]] :
        p \in Permutations(DOMAIN cacheDir.files) }

\* What the lookup returns when the directory is enumerated in that order.
LookupIn(files) ==
    getAccessTokenFromSsoSessionWithPath([cacheDir EXCEPT !.files = files],
                                         ssoStartURL)

\* Every order of enumeration yields the token and path the lookup returned.
SameInEveryOrder ==
    \A files \in Enumerations :
       \E r \in { LookupIn(files) } :
          r.err = ret.err /\ r.token = ret.token /\ r.path = ret.path

\* C40: the cache lookup is deterministic with respect to the order of
\* enumeration: for the same set of cache entries, entries whose
\* modification times are equal to the second included, any two orders
\* yield the same access token and path.
C40_OrderIndependent == LookupReturned => SameInEveryOrder

\* The candidates of the lookup have modification times that differ in their
\* whole seconds.
DistinctSeconds ==
    \A m, n \in ret.candidates :
       m # n => EntryNamed(m).mtime \div TicksPerSecond
                   # EntryNamed(n).mtime \div TicksPerSecond

\* The same for directories whose candidates differ in the whole seconds of
\* their modification times.
OrderIndependentForDistinctSeconds ==
    (LookupReturned /\ DistinctSeconds) => SameInEveryOrder

\* Two such candidates, the newer one listed first.
NewerCandidateListedFirst ==
    /\ LookupReturned /\ DistinctSeconds
    /\ Cardinality(ret.candidates) = 2
    /\ ret.path = cacheDir.files[1].name

==============================================================================
